---- MODULE Spec2Model ----
(***************************************************************************)
(* Model of the zedrouter AppNetwork reconciler (src/unnamed/part_000):    *)
(* handleAppNetworkConfigModify / handleAppNetworkConfigDelete and the     *)
(* handlers handleCreate, handleModify and handleDelete they dispatch to.  *)
(* Every handler runs to completion before the next event is taken, so     *)
(* each handler is one action.  The publishes and the host operations a    *)
(* handler makes on its way are kept, in order, in the history variable    *)
(* log; the state before the handler is kept in pre.                       *)
(***************************************************************************)
EXTENDS Integers, Sequences, FiniteSets, TLC

VARIABLES
    pubApp,     \* pubAppNetworkStatus: key -> AppNetworkStatus (published ones)
    nums,       \* AllocatedAppNum: UUID -> [num, mgmt]
    netConfig,  \* subNetworkObjectConfig: the networks that have a config
    netStatus,  \* pubNetworkObjectStatus: network -> NetworkObjectStatus
    svc,        \* network service attached to a network: none/inactive/active
    sdp,        \* ctx.separateDataPlane
    dev,        \* deviceEID, deviceIID, additionalInfoDevice
    host,       \* host networking state, configlets, helper configuration
    fatal,      \* the process ended in log.Fatal
    log,        \* history: publishes and operations of the last handler
    pre,        \* history: pubApp, netStatus, host, dev, sdp, nums before it
    last,       \* history: the last event and how the handler returned
    events,     \* history: the number of events handled so far
    limit,      \* the number of config events the run handles
    probe,      \* arguments and result of one call of diffIpsets or of the
                \* MAC formatting
    prgChan,    \* oci.go: the NotifChan handed to sendStats
    receiver,   \* oci.go: the consumer of the NotifChan
    producer,   \* oci.go: the caller of sendStats and its last call
    pull,       \* oci.go: Pull's progress loop, its channel and the writer
    run         \* Run: its position, the context's flags and its history

\* the state of oci.go
statsVars == <<prgChan, receiver, producer, pull>>

vars == <<pubApp, nums, netConfig, netStatus, svc, sdp, dev, host, fatal,
          log, pre, last, events, limit, probe, statsVars, run>>

----------------------------------------------------------------------------
(* Bounds and input sets *)

\* largest UsableAddressCount, number of changes of the DeviceUplinkConfig,
\* number of events Run takes from its channels
MaxAddrs == 1

\* capacity of Pull's progress channel in the model (200 in the code) and
\* number of progress updates the writer sends
MaxBuf == 3
MaxUpdates == 6

\* largest interface index and largest number handed to the MAC formatting
MaxIfIdx == 256
MaxMacNum == 257
MaxVersions == 2
MaxRunSteps == 6

\* longest overlay list and longest underlay list of a config
MaxOl == 1
MaxUl == 1
\* errors recorded on a status before the model stops sending it config events
MaxErrors == 2
\* config events handled in one run of the process
MaxEvents == 2
\* config events handled in one run with two instances
MaxEvents2 == 3
\* ipset names the arguments of a diffIpsets call are drawn from
MaxNames == 3
\* largest buffer of a NotifChan, and calls of sendStats in one run
MaxCap == 2
MaxCalls == 4

Keys == {"a1"}
\* the instances of the runs with two instances
Keys2 == {"a1", "a2"}
Nets == {"n1", "n2"}
\* the networks overlays attach to (an overlay service can be attached to
\* them) and the networks underlays attach to
OverlayNets == {"n1"}
UnderlayNets == {"n2"}
Versions == {"v1", "v2"}
ACLSets == {"r1", "r2"}
\* what the host answers during one handler: nothing fails, the ACL
\* configlet calls fail, or the bridge of one network is not found
Faults == {"none", "acl", "bnn1", "bnn2"}

EmptyFn == [x \in {} |-> 0]
\* the keys of a table (TLC reads the empty table as the empty tuple)
Dom(f) == IF f = <<>> THEN {} ELSE DOMAIN f
Without(f, k) == [x \in Dom(f) \ {k} |-> f[x]]
With(f, k, v) == (k :> v) @@ f

\* EID of the i-th overlay of an instance: part of its identity
EIDOf(uuid, i) == "fd00::" \o uuid \o ":" \o ToString(i)

OverlayConfigs(uuid, i) ==
    [Network : OverlayNets, ACLs : ACLSets, EID : {EIDOf(uuid, i)}, AppMacAddr : {<<>>}]
UnderlayConfigs ==
    [Network : UnderlayNets, ACLs : ACLSets, AppMacAddr : {<<>>}, AppIPAddr : {""}]

OverlayLists(uuid) ==
    UNION {  {s \in [1..n -> UNION {OverlayConfigs(uuid, i) : i \in 1..n}] :
                \A i \in 1..n : s[i] \in OverlayConfigs(uuid, i)}
           : n \in 0..MaxOl }
UnderlayLists == UNION { [1..n -> UnderlayConfigs] : n \in 0..MaxUl }

\* AppNetworkConfig values delivered by the subscriptions
ConfigsOf(k) ==
    { c \in [UUID : {k}, Version : Versions, DisplayName : {k},
             IsZedmanager : BOOLEAN, SeparateDataPlane : BOOLEAN,
             OverlayNetworkList : OverlayLists(k),
             UnderlayNetworkList : UnderlayLists] :
        c.SeparateDataPlane => c.IsZedmanager }

Configs == UNION {ConfigsOf(k) : k \in Keys}

\* the configs of the runs with two instances: one version, one rule set,
\* the data plane flag off
ConfigsOf2(k) ==
    { c \in ConfigsOf(k) :
        /\ c.Version = "v1"
        /\ ~c.SeparateDataPlane
        /\ \A i \in 1..Len(c.OverlayNetworkList) : c.OverlayNetworkList[i].ACLs = "r1"
        /\ \A i \in 1..Len(c.UnderlayNetworkList) : c.UnderlayNetworkList[i].ACLs = "r1" }

----------------------------------------------------------------------------
(* Formatting: fmt.Sprintf("%02x") and strconv.Itoa *)

RECURSIVE HexDigits(_)
HexDigits(n) == IF n < 16 THEN <<n>> ELSE HexDigits(n \div 16) \o <<n % 16>>

\* %x: no padding
Hex02NoPad(n) == HexDigits(n)

\* %02x: at least two hex digits, zero padded; more when the value needs them
Hex02(n) == IF n < 16 THEN <<0, n>> ELSE HexDigits(n)

\* "00:16:3e:<kind>:<idx>:<appNum>" as the list of its colon separated fields
GenMac(kind, idx, appNum) ==
    << <<0, 0>>, <<1, 6>>, <<3, 14>>, <<0, kind>>, Hex02(idx), Hex02(appNum) >>

\* net.ParseMAC succeeds on six fields of two hex digits
ParseMACOk(mac) == Len(mac) = 6 /\ \A i \in 1..6 : Len(mac[i]) = 2

IfName(prefix, idx, num) == prefix \o ToString(idx) \o "x" \o ToString(num)

----------------------------------------------------------------------------
(* Records *)

NoPending == [PendingAdd |-> FALSE, PendingModify |-> FALSE, PendingDelete |-> FALSE]

\* OverlayNetworkStatus{OverlayNetworkConfig: cfg}: the other fields zero
OverlayNetworkStatus(cfg) ==
    [Network |-> cfg.Network, ACLs |-> cfg.ACLs, EID |-> cfg.EID,
     AppMacAddr |-> cfg.AppMacAddr,
     Bridge |-> "", BridgeMac |-> <<>>, Vif |-> "", Mac |-> <<>>,
     BridgeIPAddr |-> "", HostName |-> ""]

\* UnderlayNetworkStatus{UnderlayNetworkConfig: cfg}: the other fields zero
UnderlayNetworkStatus(cfg) ==
    [Network |-> cfg.Network, ACLs |-> cfg.ACLs,
     AppMacAddr |-> cfg.AppMacAddr, AppIPAddr |-> cfg.AppIPAddr,
     Bridge |-> "", BridgeMac |-> <<>>, Vif |-> "", Mac |-> <<>>,
     BridgeIPAddr |-> "", AssignedIPAddr |-> "", HostName |-> ""]

\* the status handleCreate starts from
NewAppNetworkStatus(config, appNum) ==
    [UUID |-> config.UUID, Version |-> config.Version, AppNum |-> appNum,
     PendingAdd |-> TRUE, PendingModify |-> FALSE, PendingDelete |-> FALSE,
     OlNum |-> Len(config.OverlayNetworkList),
     UlNum |-> Len(config.UnderlayNetworkList),
     DisplayName |-> config.DisplayName,
     IsZedmanager |-> config.IsZedmanager,
     SeparateDataPlane |-> FALSE,
     OverlayNetworkList |-> <<>>, UnderlayNetworkList |-> <<>>,
     Error |-> <<>>]

NoDevice == [EID |-> "", IID |-> 0, Info |-> ""]

EmptyHost ==
    [links |-> {}, addrs |-> {}, neigh |-> {}, routes |-> {},
     hostsFile |-> {}, ipset |-> {}, acl |-> {}, dnsmasqHost |-> {},
     dnsmasqConf |-> EmptyFn, lisp |-> {}]

\* NetworkObjectStatus of network n when its status is first published; the
\* bridge of n1 has an address, the bridge of n2 has none yet
NewNetworkObjectStatus(n) ==
    [BridgeNum |-> IF n = "n1" THEN 1 ELSE 2,
     BridgeName |-> "bn" \o n,
     BridgeIPAddr |-> IF n = "n1" THEN "10.9.0.1" ELSE "",
     BridgeIPSets |-> {},
     Vifs |-> {},
     IPAssignments |-> {}]

PendingSet(st) ==
    {f \in {"Add", "Modify", "Delete"} :
        \/ f = "Add" /\ st.PendingAdd
        \/ f = "Modify" /\ st.PendingModify
        \/ f = "Delete" /\ st.PendingDelete}

----------------------------------------------------------------------------
(* The handler's working state m: the tables it reads and writes, its     *)
(* local status variable, and whether it has returned.                    *)

Op(m, name) ==
    [m EXCEPT !.log = Append(@, [kind |-> "op", name |-> name, pend |-> {}])]

RECURSIVE Ops(_, _)
Ops(m, names) ==
    IF names = <<>> THEN m ELSE Ops(Op(m, Head(names)), Tail(names))

publishAppNetworkStatus(m) ==
    [m EXCEPT !.app = With(@, m.status.UUID, m.status),
              !.log = Append(@, [kind |-> "publish", name |-> m.status.UUID,
                                 pend |-> PendingSet(m.status)])]

unpublishAppNetworkStatus(m) ==
    IF m.status.UUID \notin Dom(m.app) THEN m
    ELSE [m EXCEPT !.app = Without(@, m.status.UUID),
                   !.log = Append(@, [kind |-> "unpublish",
                                      name |-> m.status.UUID, pend |-> {}])]

publishNetworkObjectStatus(m, n, netstatus) ==
    [m EXCEPT !.net = With(@, n, netstatus),
              !.log = Append(@, [kind |-> "publishNet", name |-> n, pend |-> {}])]

appendError(allErrors, tag) == Append(allErrors, tag)

\* an addError that keeps the last error only
addErrorKeepsLast(m, tag) ==
    publishAppNetworkStatus(
        [m EXCEPT !.status.Error = <<tag>>])

addError(m, tag) ==
    publishAppNetworkStatus(
        [m EXCEPT !.status.Error = appendError(@, tag)])

Return(m) == [m EXCEPT !.ret = TRUE]

----------------------------------------------------------------------------
(* Allocators and reconcilers called by the handlers *)

UsedNums(alloc, mgmt) == {alloc[u].num : u \in {x \in Dom(alloc) : alloc[x].mgmt = mgmt}}

SmallestUnused(used) == CHOOSE i \in 0..Cardinality(used) :
                            i \notin used /\ \A j \in 0..(i - 1) : j \in used

\* the number an instance holds in the namespace is kept; otherwise the
\* smallest number no instance holds in the namespace is taken
appNumAllocate(alloc, uuid, isZedmanager) ==
    IF uuid \in Dom(alloc) /\ alloc[uuid].mgmt = isZedmanager THEN alloc
    ELSE With(Without(alloc, uuid), uuid,
              [num |-> SmallestUnused(UsedNums(Without(alloc, uuid), isZedmanager)),
               mgmt |-> isZedmanager])

appNumFree(alloc, uuid) == Without(alloc, uuid)

\* DNS names an ACL rule list refers to
ACLIpsets(acls) == IF acls = "r1" THEN {} ELSE {"ipset." \o acls}

RECURSIVE ListIpsets(_)
ListIpsets(list) ==
    IF list = <<>> THEN {} ELSE ACLIpsets(Head(list).ACLs) \cup ListIpsets(Tail(list))

compileAppInstanceIpsets(ollist, ullist) == ListIpsets(ollist) \cup ListIpsets(ullist)

\* a diff that asks for a restart only when a set went away
diffIpsetsStaleOnly(required, existing) ==
    [merged |-> required, stale |-> existing \ required,
     restart |-> existing \ required # {}]

diffIpsets(required, existing) ==
    [merged |-> required, stale |-> existing \ required,
     restart |-> required # existing]

\* Address number i of the pool of the network with bridge number b
PoolAddr(b, i) == "10." \o ToString(b) \o ".0." \o ToString(i + 1)

HasLease(netstatus, mac) == \E a \in netstatus.IPAssignments : a[1] = mac

LeaseOf(netstatus, mac) ==
    PoolAddr(netstatus.BridgeNum,
             (CHOOSE a \in netstatus.IPAssignments : a[1] = mac)[2])

\* lookupOrAllocateIPv4: the address bound to mac on network n, else the next
\* free one of the pool; the binding is kept in the network's IPAssignments
lookupOrAllocateIPv4(m, n, mac) ==
    IF HasLease(m.net[n], mac) THEN m
    ELSE [m EXCEPT !.net[n].IPAssignments =
            @ \cup {<<mac, SmallestUnused({a[2] : a \in @})>>}]

releaseIPv4(m, n, mac) ==
    [m EXCEPT !.net[n].IPAssignments = {a \in @ : a[1] # mac}]

addVifToBridge(netstatus, vif) == [netstatus EXCEPT !.Vifs = @ \cup {vif}]

removeVifFromBridge(netstatus, vif) == [netstatus EXCEPT !.Vifs = @ \ {vif}]

----------------------------------------------------------------------------
(* Lookups in the tables the companion subscriptions fill *)

lookupNetworkObjectConfig(n) == n \in netConfig

lookupNetworkObjectStatus(m, n) == n \in Dom(m.net)

\* lookupAppLink: the service attached to the network, if any
lookupAppLink(n) == svc[n] # "none"

ServiceActivated(n) == svc[n] = "active"

\* the hardware address netlink reports for a bridge
BridgeHwAddr(netstatus) ==
    << <<0, 2>>, <<0, 0>>, <<0, 0>>, <<0, 0>>, <<0, 0>>, Hex02(netstatus.BridgeNum) >>

\* findBridge: netlink.LinkByName fails when the bridge is gone
\* findBridge(bridgeName) returns an error: the host has no such link
findBridgeFails(fault, bridgeName) == fault = bridgeName

\* generateAdditionalInfo: the device's for the management instance,
\* deviceEID/deviceIID for the others
generateAdditionalInfo(m) ==
    IF m.status.IsZedmanager THEN "device"
    ELSE m.dev.EID \o "/" \o ToString(m.dev.IID)

SetAcl(h, vif, acls) == [h EXCEPT !.acl = {p \in @ : p[1] # vif} \cup {<<vif, acls>>}]

DelAcl(h, vif) == [h EXCEPT !.acl = {p \in @ : p[1] # vif}]

maybeRemoveStaleIpsets(m, stale) ==
    IF stale = {} THEN m ELSE Op(m, "ipsetDestroy")

\* stopDnsmasq; createDnsmasqConfiglet(bridge, ..., ipsets); startDnsmasq
restartDnsmasq(m, bridgeName, ipsets) ==
    [Ops(m, <<"stopDnsmasq", "createDnsmasqConfiglet", "startDnsmasq">>)
        EXCEPT !.host.dnsmasqConf = With(@, bridgeName, ipsets)]

\* a restart decided on the result of diffIpsets alone
NeedRestartAnyAddress(d, bridgeIPAddr) == d.restart

\* restartDnsmasq && BridgeIPAddr != ""
NeedRestart(d, bridgeIPAddr) == d.restart /\ bridgeIPAddr # ""

----------------------------------------------------------------------------
(* handleCreate *)

\* variant of MalformedZedmanager that tests the overlays only (sensitivity
\* of C9)
MalformedZedmanagerOverlaysOnly(config) == Len(config.OverlayNetworkList) # 1

\* len(config.OverlayNetworkList) != 1 || len(config.UnderlayNetworkList) != 0
MalformedZedmanager(config) ==
    Len(config.OverlayNetworkList) # 1 \/ Len(config.UnderlayNetworkList) # 0

\* variant of abortCreate that leaves PendingAdd set (sensitivity of C10)
abortCreateKeepsPending(m, tag) == Return(addError(m, tag))

\* status.PendingAdd = false; addError(...); return
abortCreate(m, tag) ==
    Return(addError([m EXCEPT !.status.PendingAdd = FALSE], tag))

\* variant of finishCreate that leaves PendingAdd set (sensitivity of C6)
finishCreateKeepsPending(m) == Return(publishAppNetworkStatus(m))

\* status.PendingAdd = false; publishAppNetworkStatus(ctx, &status)
finishCreate(m) ==
    Return(publishAppNetworkStatus([m EXCEPT !.status.PendingAdd = FALSE]))

\* the IsZedmanager branch of handleCreate, after the first publish
createZedmanager(m, config, fault) ==
    IF MalformedZedmanager(config)
    THEN abortCreate(m, "IsZedmanager")
    ELSE IF ~ParseMACOk(GenMac(2, 1, m.status.AppNum))
    THEN [Op(m, "LinkDel") EXCEPT !.sdp = config.SeparateDataPlane,
                                  !.fatal = TRUE, !.ret = TRUE]   \* log.Fatal
    ELSE
    LET olConfig == config.OverlayNetworkList[1]
        olIfname == IfName("dbo", 1, m.status.AppNum)
        EID      == olConfig.EID
        m1 == [Ops([m EXCEPT !.sdp = config.SeparateDataPlane],
                   <<"LinkDel", "LinkAdd", "LinkSetMTU", "LinkSetUp",
                     "LinkSetARPOn", "AddrAdd", "NeighAdd", "NeighSet">>)
                 EXCEPT !.host.links = @ \cup {olIfname},
                        !.host.addrs = @ \cup {<<olIfname, EID>>},
                        !.host.neigh = @ \cup {olIfname}]
        m2 == IF fault = "route"
              THEN addError(Op(m1, "RouteAdd"), "IsZedmanager")
              ELSE [Op(m1, "RouteAdd") EXCEPT
                        !.host.routes = @ \cup {<<olIfname, "fd00::/8">>}]
        m3 == [Ops(m2, <<"deleteHostsConfiglet", "createHostsConfiglet",
                         "deleteDefaultIpsetConfiglet",
                         "createDefaultIpsetConfiglet">>)
                 EXCEPT !.host.hostsFile = @ \cup {<<olIfname, "mgmt">>},
                        !.host.ipset = @ \cup {olIfname}]
        m4 == IF fault = "acl"
              THEN addError(Op(m3, "createACLConfiglet"), "createACL")
              ELSE [Op(m3, "createACLConfiglet") EXCEPT
                        !.host = SetAcl(@, olIfname, olConfig.ACLs)]
        m5 == [m4 EXCEPT !.dev = [EID |-> EID, IID |-> 1, Info |-> "device"]]
        m6 == [Op(m5, "createLispConfiglet") EXCEPT
                  !.host.lisp = @ \cup {[ifname |-> olIfname, EID |-> EID,
                                         info |-> generateAdditionalInfo(m5)]},
                  !.status.OverlayNetworkList =
                      [i \in 1..Len(config.OverlayNetworkList) |->
                          OverlayNetworkStatus(config.OverlayNetworkList[i])],
                  !.status.PendingAdd = FALSE]
    IN Return(publishAppNetworkStatus(m6))

\* variant of allNetworksExist that looks at the overlays only (sensitivity
\* of C5)
allNetworksExistOverlaysOnly(config) ==
    \A i \in 1..Len(config.OverlayNetworkList) :
        lookupNetworkObjectConfig(config.OverlayNetworkList[i].Network)

\* "Check that Network exists for all overlays and underlays"
allNetworksExist(config) ==
    /\ \A i \in 1..Len(config.OverlayNetworkList) :
          lookupNetworkObjectConfig(config.OverlayNetworkList[i].Network)
    /\ \A i \in 1..Len(config.UnderlayNetworkList) :
          lookupNetworkObjectConfig(config.UnderlayNetworkList[i].Network)

\* createAndStartLisp -> createLispEidConfiglet
createAndStartLisp(m, olConfig, bridgeName) ==
    [Op(m, "createLispEidConfiglet") EXCEPT
        !.host.lisp = @ \cup {[ifname |-> bridgeName, EID |-> olConfig.EID,
                               info |-> generateAdditionalInfo(m)]}]

\* one iteration of the overlay loop of handleCreate
createOverlay(m, config, olNum, ipsets, fault) ==
    LET olConfig == config.OverlayNetworkList[olNum]
        n        == olConfig.Network
        appNum   == m.status.AppNum
    IN
    IF ~lookupNetworkObjectConfig(n) THEN Return(m)
    ELSE IF ~lookupNetworkObjectStatus(m, n)
    THEN addError(m, "lookupNetworkObjectStatus")
    ELSE
    LET netstatus  == m.net[n]
        bridgeName == netstatus.BridgeName
        vifName    == IfName("nbo", olNum, netstatus.BridgeNum)
    IN
    IF findBridgeFails(fault, bridgeName)
    THEN abortCreate(m, "findBridge")
    ELSE
    LET appMac == IF olConfig.AppMacAddr # <<>> THEN olConfig.AppMacAddr
                  ELSE GenMac(1, olNum, appNum)
        EID == olConfig.EID
        m1 == [m EXCEPT !.status.OverlayNetworkList[olNum] =
                  [@ EXCEPT !.Bridge = bridgeName,
                            !.BridgeMac = BridgeHwAddr(netstatus),
                            !.Vif = vifName, !.Mac = appMac,
                            !.HostName = config.UUID,
                            !.BridgeIPAddr = netstatus.BridgeIPAddr]]
        bridgeIPAddr == netstatus.BridgeIPAddr
        m2 == IF fault = "route"
              THEN addError(Op(m1, "RouteAdd"), "handleCreate")
              ELSE [Op(m1, "RouteAdd") EXCEPT
                        !.host.routes = @ \cup {<<bridgeName, EID>>}]
        m3 == [Ops(m2, <<"addToHostsConfiglet", "deleteDefaultIpsetConfiglet",
                         "createDefaultIpsetConfiglet">>)
                 EXCEPT !.host.hostsFile = @ \cup {<<bridgeName, config.DisplayName>>},
                        !.host.ipset = @ \cup {vifName}]
        m4 == IF fault = "acl"
              THEN addError(Op(m3, "createACLConfiglet"), "createACL")
              ELSE [Op(m3, "createACLConfiglet") EXCEPT
                        !.host = SetAcl(@, vifName, olConfig.ACLs)]
        m5 == [Op(m4, "addhostDnsmasq") EXCEPT
                  !.host.dnsmasqHost = @ \cup {<<bridgeName, appMac>>}]
        d  == diffIpsets(ipsets, netstatus.BridgeIPSets)
        m6 == IF NeedRestart(d, bridgeIPAddr)
              THEN restartDnsmasq(m5, bridgeName, d.merged) ELSE m5
        m7 == publishNetworkObjectStatus(m6, n,
                  [addVifToBridge(netstatus, vifName) EXCEPT
                      !.BridgeIPSets = d.merged])
        m8 == maybeRemoveStaleIpsets(m7, d.stale)
    IN IF ~lookupAppLink(n) \/ ~ServiceActivated(n) THEN m8
       ELSE createAndStartLisp(m8, olConfig, bridgeName)

\* getUlAddrs: <<working state, bridgeIPAddr, appIPAddr>>
getUlAddrs(m, n, ulNum) ==
    LET status == m.status.UnderlayNetworkList[ulNum]
        mb == lookupOrAllocateIPv4(m, n, status.BridgeMac)
        bridgeIPAddr == LeaseOf(mb.net[n], status.BridgeMac)
    IN IF status.AppIPAddr # ""
       THEN <<mb, bridgeIPAddr, status.AppIPAddr>>
       ELSE IF ~ParseMACOk(status.Mac)
       THEN <<[mb EXCEPT !.fatal = TRUE, !.ret = TRUE], bridgeIPAddr, "">>
       ELSE LET ma == lookupOrAllocateIPv4(mb, n, status.Mac)
            IN <<ma, bridgeIPAddr, LeaseOf(ma.net[n], status.Mac)>>

\* one iteration of the underlay loop of handleCreate
createUnderlay(m, config, ulNum, ipsets, fault) ==
    LET ulConfig == config.UnderlayNetworkList[ulNum]
        n        == ulConfig.Network
        appNum   == m.status.AppNum
    IN
    IF ~lookupNetworkObjectConfig(n) THEN Return(m)
    ELSE IF ~lookupNetworkObjectStatus(m, n)
    THEN addError(m, "lookupNetworkObjectStatus")
    ELSE
    LET bridgeName == m.net[n].BridgeName
        vifName    == IfName("nbu", ulNum, appNum)
    IN
    IF findBridgeFails(fault, bridgeName)
    THEN abortCreate(m, "findBridge")
    ELSE
    LET appMac == IF ulConfig.AppMacAddr # <<>> THEN ulConfig.AppMacAddr
                  ELSE GenMac(0, ulNum, appNum)
        m1 == [m EXCEPT !.status.UnderlayNetworkList[ulNum] =
                  [@ EXCEPT !.Bridge = bridgeName,
                            !.BridgeMac = BridgeHwAddr(m.net[n]),
                            !.Vif = vifName, !.Mac = appMac,
                            !.HostName = config.UUID]]
        ga == getUlAddrs(m1, n, ulNum)
        bridgeIPAddr == ga[2]
        appIPAddr    == ga[3]
    IN
    IF ga[1].fatal THEN ga[1]
    ELSE
    LET netstatus == ga[1].net[n]
        m2 == [ga[1] EXCEPT !.status.UnderlayNetworkList[ulNum] =
                  [@ EXCEPT !.BridgeIPAddr = bridgeIPAddr,
                            !.AssignedIPAddr = appIPAddr]]
        m3 == IF appIPAddr = "" THEN m2
              ELSE [Op(m2, "addToHostsConfiglet") EXCEPT
                      !.host.hostsFile = @ \cup {<<bridgeName, config.DisplayName>>}]
        m4 == [Ops(m3, <<"deleteDefaultIpsetConfiglet",
                         "createDefaultIpsetConfiglet">>)
                 EXCEPT !.host.ipset = @ \cup {vifName}]
        m5 == IF fault = "acl"
              THEN addError(Op(m4, "createACLConfiglet"), "createACL")
              ELSE [Op(m4, "createACLConfiglet") EXCEPT
                        !.host = SetAcl(@, vifName, ulConfig.ACLs)]
        m6 == IF appIPAddr = "" THEN m5
              ELSE [Op(m5, "addhostDnsmasq") EXCEPT
                      !.host.dnsmasqHost = @ \cup {<<bridgeName, appMac>>}]
        d  == diffIpsets(ipsets, netstatus.BridgeIPSets)
        m7 == IF NeedRestart(d, bridgeIPAddr)
              THEN restartDnsmasq(m6, bridgeName, d.merged) ELSE m6
        m8 == publishNetworkObjectStatus(m7, n,
                  [addVifToBridge(netstatus, vifName) EXCEPT
                      !.BridgeIPSets = d.merged])
    IN maybeRemoveStaleIpsets(m8, d.stale)

RECURSIVE createOverlays(_, _, _, _, _)
createOverlays(m, config, olNum, ipsets, fault) ==
    IF m.ret \/ olNum > Len(config.OverlayNetworkList) THEN m
    ELSE createOverlays(createOverlay(m, config, olNum, ipsets, fault),
                        config, olNum + 1, ipsets, fault)

RECURSIVE createUnderlays(_, _, _, _, _)
createUnderlays(m, config, ulNum, ipsets, fault) ==
    IF m.ret \/ ulNum > Len(config.UnderlayNetworkList) THEN m
    ELSE createUnderlays(createUnderlay(m, config, ulNum, ipsets, fault),
                         config, ulNum + 1, ipsets, fault)

\* the rest of handleCreate for a regular instance, after the first publish
createRegular(m, config, fault) ==
    IF ~allNetworksExist(config) THEN Return(unpublishAppNetworkStatus(m))
    ELSE
    LET m1 == [m EXCEPT
                !.status.OverlayNetworkList =
                    [i \in 1..Len(config.OverlayNetworkList) |->
                        OverlayNetworkStatus(config.OverlayNetworkList[i])],
                !.status.UnderlayNetworkList =
                    [i \in 1..Len(config.UnderlayNetworkList) |->
                        UnderlayNetworkStatus(config.UnderlayNetworkList[i])]]
        ipsets == compileAppInstanceIpsets(config.OverlayNetworkList,
                                           config.UnderlayNetworkList)
        m2 == createOverlays(m1, config, 1, ipsets, fault)
        m3 == createUnderlays(m2, config, 1, ipsets, fault)
    IN IF m3.ret THEN m3 ELSE finishCreate(m3)

\* a create that does not publish the PendingAdd status before it starts
handleCreateNoFirstPublish(m, config, fault) ==
    LET alloc == appNumAllocate(m.nums, config.UUID, config.IsZedmanager)
        m1 == [m EXCEPT !.nums = alloc,
                        !.status = NewAppNetworkStatus(config, alloc[config.UUID].num)]
    IN IF config.IsZedmanager THEN createZedmanager(m1, config, fault)
       ELSE createRegular(m1, config, fault)

handleCreate(m, config, fault) ==
    LET alloc == appNumAllocate(m.nums, config.UUID, config.IsZedmanager)
        m1 == publishAppNetworkStatus(
                [m EXCEPT !.nums = alloc,
                          !.status = NewAppNetworkStatus(config, alloc[config.UUID].num)])
    IN IF config.IsZedmanager THEN createZedmanager(m1, config, fault)
       ELSE createRegular(m1, config, fault)

----------------------------------------------------------------------------
(* handleModify *)

\* config.IsZedmanager != status.IsZedmanager
ZedmanagerChanged(config, status) == config.IsZedmanager # status.IsZedmanager

\* variant of CountsChanged that tests the overlays only (sensitivity of C2)
CountsChangedOverlaysOnly(config, status) ==
    Len(config.OverlayNetworkList) # status.OlNum

\* len(config.OverlayNetworkList) != status.OlNum, then the same for underlays
CountsChanged(config, status) ==
    \/ Len(config.OverlayNetworkList) # status.OlNum
    \/ Len(config.UnderlayNetworkList) # status.UlNum

\* a rejection that returns without clearing PendingModify
rejectModifyKeepsPending(m) ==
    Return(addError(m, "handleModify"))

\* status.PendingModify = false; addError(...); return
rejectModify(m) ==
    Return(addError([m EXCEPT !.status.PendingModify = FALSE], "handleModify"))

\* updateACLConfiglet: applies the difference between the old and new rules
updateACLConfiglet(m, vif, oldACLs, newACLs, fault) ==
    IF oldACLs = newACLs THEN m
    ELSE IF fault = "acl" THEN addError(Op(m, "updateACLConfiglet"), "updateACL")
    ELSE [Op(m, "updateACLConfiglet") EXCEPT !.host = SetAcl(@, vif, newACLs)]

\* the IsZedmanager branch of handleModify, after the PendingModify publish
modifyZedmanager(m, config, fault) ==
    IF config.SeparateDataPlane # m.sdp THEN rejectModify(m)
    ELSE IF Len(config.OverlayNetworkList) < 1 \/ Len(m.status.OverlayNetworkList) < 1
    THEN [m EXCEPT !.fatal = TRUE, !.ret = TRUE]    \* index out of range
    ELSE
    LET olIfname == IfName("dbo", 1, m.status.AppNum)
        m1 == updateACLConfiglet(m, olIfname, m.status.OverlayNetworkList[1].ACLs,
                                 config.OverlayNetworkList[1].ACLs, fault)
    IN Return(publishAppNetworkStatus([m1 EXCEPT !.status.PendingModify = FALSE]))

updateLispConfiglet(m, olConfig, bridgeName) ==
    [Op(m, "updateLispConfiglet") EXCEPT
        !.host.lisp = {l \in @ : ~(l.ifname = bridgeName /\ l.EID = olConfig.EID)}
                        \cup {[ifname |-> bridgeName, EID |-> olConfig.EID,
                               info |-> generateAdditionalInfo(m)]}]

\* the part of a modify iteration the overlay and underlay loops share:
\* diffIpsets, the helper restart, the vif list, the network status publish
modifyBridge(m, n, ifStatus, ipsets) ==
    LET netstatus == m.net[n]
        d  == diffIpsets(ipsets, netstatus.BridgeIPSets)
        m1 == IF NeedRestart(d, ifStatus.BridgeIPAddr)
              THEN restartDnsmasq(m, ifStatus.Bridge, d.merged) ELSE m
        m2 == publishNetworkObjectStatus(m1, n,
                  [removeVifFromBridge(netstatus, ifStatus.Vif) EXCEPT
                      !.BridgeIPSets = d.merged])
    IN maybeRemoveStaleIpsets(m2, d.stale)

\* one iteration of the overlay loop of handleModify
modifyOverlay(m, config, olNum, ipsets, fault) ==
    IF Len(m.status.OverlayNetworkList) < olNum THEN m
    ELSE
    LET olConfig == config.OverlayNetworkList[olNum]
        olStatus == m.status.OverlayNetworkList[olNum]
        n        == olConfig.Network
    IN
    IF ~lookupNetworkObjectConfig(n) THEN addError(m, "lookupNetworkObjectConfig")
    ELSE IF ~lookupNetworkObjectStatus(m, n)
    THEN addError(m, "lookupNetworkObjectStatus")
    ELSE
    LET m1 == updateACLConfiglet(m, olStatus.Vif, olStatus.ACLs, olConfig.ACLs, fault)
        m2 == modifyBridge(m1, n, olStatus, ipsets)
    IN IF ~lookupAppLink(n) THEN m2
       ELSE updateLispConfiglet(m2, olConfig, olStatus.Bridge)

\* one iteration of the underlay loop of handleModify
modifyUnderlay(m, config, ulNum, ipsets, fault) ==
    IF Len(m.status.UnderlayNetworkList) < ulNum THEN m
    ELSE
    LET ulConfig == config.UnderlayNetworkList[ulNum]
        ulStatus == m.status.UnderlayNetworkList[ulNum]
        n        == ulConfig.Network
    IN
    IF ~lookupNetworkObjectConfig(n) THEN addError(m, "lookupNetworkObjectConfig")
    ELSE IF ~lookupNetworkObjectStatus(m, n)
    THEN addError(m, "lookupNetworkObjectStatus")
    ELSE
    LET m1 == updateACLConfiglet(m, ulStatus.Vif, ulStatus.ACLs, ulConfig.ACLs, fault)
    IN modifyBridge(m1, n, ulStatus, ipsets)

RECURSIVE modifyOverlays(_, _, _, _, _)
modifyOverlays(m, config, olNum, ipsets, fault) ==
    IF olNum > Len(config.OverlayNetworkList) THEN m
    ELSE modifyOverlays(modifyOverlay(m, config, olNum, ipsets, fault),
                        config, olNum + 1, ipsets, fault)

RECURSIVE modifyUnderlays(_, _, _, _, _)
modifyUnderlays(m, config, ulNum, ipsets, fault) ==
    IF ulNum > Len(config.UnderlayNetworkList) THEN m
    ELSE modifyUnderlays(modifyUnderlay(m, config, ulNum, ipsets, fault),
                         config, ulNum + 1, ipsets, fault)

\* "Write out what we modified to AppNetworkStatus"
writeOutModified(status, config) ==
    [status EXCEPT
        !.OverlayNetworkList =
            [i \in 1..Len(config.OverlayNetworkList) |->
                OverlayNetworkStatus(config.OverlayNetworkList[i])],
        !.UnderlayNetworkList =
            [i \in 1..Len(config.UnderlayNetworkList) |->
                UnderlayNetworkStatus(config.UnderlayNetworkList[i])],
        !.PendingModify = FALSE]

\* the rest of handleModify for a regular instance
modifyRegular(m, config, fault) ==
    LET ipsets == compileAppInstanceIpsets(config.OverlayNetworkList,
                                           config.UnderlayNetworkList)
        m1 == modifyOverlays(m, config, 1, ipsets, fault)
        m2 == modifyUnderlays(m1, config, 1, ipsets, fault)
    IN Return(publishAppNetworkStatus(
                [m2 EXCEPT !.status = writeOutModified(@, config)]))

\* status.SeparateDataPlane, PendingModify and UUIDandVersion are set and
\* published once the unsupported changes are excluded
startModify(m, config) ==
    publishAppNetworkStatus(
        [m EXCEPT !.status.SeparateDataPlane = m.sdp,
                  !.status.PendingModify = TRUE,
                  !.status.Version = config.Version])

handleModify(m, config, fault) ==
    IF ZedmanagerChanged(config, m.status) THEN rejectModify(m)
    ELSE IF CountsChanged(config, m.status) THEN rejectModify(m)
    ELSE IF config.IsZedmanager
         THEN modifyZedmanager(startModify(m, config), config, fault)
         ELSE modifyRegular(startModify(m, config), config, fault)

----------------------------------------------------------------------------
(* handleDelete *)

\* the ipsets the other published instances need on the networks of this one
compileOldAppInstanceIpsets(m, status) ==
    LET mine == {status.OverlayNetworkList[i].Network :
                    i \in 1..Len(status.OverlayNetworkList)}
                \cup {status.UnderlayNetworkList[i].Network :
                    i \in 1..Len(status.UnderlayNetworkList)}
        IfIpsets(list) == UNION {ACLIpsets(list[i].ACLs) :
                                   i \in {j \in 1..Len(list) : list[j].Network \in mine}}
    IN UNION {IfIpsets(m.app[k].OverlayNetworkList)
                \cup IfIpsets(m.app[k].UnderlayNetworkList) :
              k \in Dom(m.app) \ {status.UUID}}

deleteACLConfiglet(m, vif, tag, fault) ==
    IF fault = "acl" THEN addError(Op(m, "deleteACLConfiglet"), tag)
    ELSE [Op(m, "deleteACLConfiglet") EXCEPT !.host = DelAcl(@, vif)]

deleteLispConfiglet(m, EID) ==
    [Op(m, "deleteLispConfiglet") EXCEPT !.host.lisp = {l \in @ : l.EID # EID}]

\* a delete that frees the number of a status it leaves published
finishDeleteKeepsStatus(m) ==
    LET m1 == publishAppNetworkStatus([m EXCEPT !.status.PendingDelete = FALSE])
    IN Return([m1 EXCEPT !.nums = appNumFree(@, m.status.UUID)])

\* appNumFree(status.UUIDandVersion.UUID), noted in the history
freeAppNum(m) ==
    [m EXCEPT !.nums = appNumFree(@, m.status.UUID),
              !.log = Append(@, [kind |-> "free", name |-> m.status.UUID,
                                 pend |-> {}])]

\* a delete that frees the number before it unpublishes the status
finishDeleteFreesFirst(m) ==
    LET m1 == freeAppNum(m)
        m2 == publishAppNetworkStatus([m1 EXCEPT !.status.PendingDelete = FALSE])
    IN Return(unpublishAppNetworkStatus(m2))

\* the last steps of handleDelete on both paths
finishDelete(m) ==
    LET m1 == publishAppNetworkStatus([m EXCEPT !.status.PendingDelete = FALSE])
        m2 == unpublishAppNetworkStatus(m1)
    IN Return(freeAppNum(m2))

\* len(status.OverlayNetworkList) != 1 || len(status.UnderlayNetworkList) != 0
MalformedZedmanagerStatus(status) ==
    Len(status.OverlayNetworkList) # 1 \/ Len(status.UnderlayNetworkList) # 0

\* the IsZedmanager branch of handleDelete
deleteZedmanager(m, fault) ==
    IF MalformedZedmanagerStatus(m.status)
    THEN Return(addError([m EXCEPT !.status.PendingDelete = FALSE], "handleDelete"))
    ELSE
    LET olStatus == m.status.OverlayNetworkList[1]
        olIfname == IfName("dbo", 1, m.status.AppNum)
        m1 == [Op([m EXCEPT !.dev = NoDevice], "AddrDel") EXCEPT
                  !.host.addrs = @ \ {<<olIfname, olStatus.EID>>}]
        m2 == IF fault = "route"
              THEN addError(Op(m1, "RouteDel"), "handleDelete")
              ELSE [Op(m1, "RouteDel") EXCEPT
                        !.host.routes = @ \ {<<olIfname, "fd00::/8">>}]
        m3 == [Ops(m2, <<"NeighDel", "LinkDel", "deleteHostsConfiglet",
                         "deleteDefaultIpsetConfiglet">>)
                 EXCEPT !.host.neigh = @ \ {olIfname},
                        !.host.links = @ \ {olIfname},
                        !.host.addrs = {a \in @ : a[1] # olIfname},
                        !.host.routes = {r \in @ : r[1] # olIfname},
                        !.host.hostsFile = {h \in @ : h[1] # olIfname},
                        !.host.ipset = @ \ {olIfname}]
        m4 == deleteACLConfiglet(m3, olIfname, "deleteACL", fault)
    IN finishDelete(deleteLispConfiglet(m4, olStatus.EID))

\* diffIpsets and the helper restart of a delete iteration; the network
\* status is changed in the handler's copy only
deleteBridge(m, n, ifStatus, ipsets) ==
    LET d  == diffIpsets(ipsets, m.net[n].BridgeIPSets)
        m1 == IF NeedRestart(d, ifStatus.BridgeIPAddr)
              THEN restartDnsmasq(m, ifStatus.Bridge, d.merged) ELSE m
    IN maybeRemoveStaleIpsets(m1, d.stale)

\* one iteration of the overlay loop of handleDelete
deleteOverlay(m, olNum, ipsets, fault) ==
    IF Len(m.status.OverlayNetworkList) < olNum THEN m
    ELSE
    LET olStatus == m.status.OverlayNetworkList[olNum]
        n        == olStatus.Network
    IN
    IF ~lookupNetworkObjectConfig(n) THEN addError(m, "lookupNetworkObjectStatus")
    ELSE IF ~lookupNetworkObjectStatus(m, n)
    THEN addError(m, "lookupNetworkObjectStatus")
    ELSE
    LET m1 == deleteACLConfiglet(m, olStatus.Vif, "deleteACL", fault)
        m2 == [Ops(m1, <<"removeFromHostsConfiglet", "deleteDefaultIpsetConfiglet">>)
                 EXCEPT !.host.hostsFile = @ \ {<<olStatus.Bridge, m.status.DisplayName>>},
                        !.host.ipset = @ \ {olStatus.Vif}]
        m3 == deleteBridge(m2, n, olStatus, ipsets)
    IN IF ~lookupAppLink(n) THEN m3
       ELSE deleteLispConfiglet(m3, olStatus.EID)

\* one iteration of the underlay loop of handleDelete
deleteUnderlay(m, ulNum, ipsets, fault) ==
    IF Len(m.status.UnderlayNetworkList) < ulNum THEN m
    ELSE
    LET ulStatus == m.status.UnderlayNetworkList[ulNum]
        n        == ulStatus.Network
    IN
    IF ~lookupNetworkObjectConfig(n) THEN addError(m, "lookupNetworkObjectConfig")
    ELSE IF ~lookupNetworkObjectStatus(m, n)
    THEN addError(m, "lookupNetworkObjectStatus")
    ELSE IF ~ParseMACOk(ulStatus.Mac)
    THEN [m EXCEPT !.fatal = TRUE, !.ret = TRUE]     \* log.Fatal
    ELSE
    LET m1 == Op(releaseIPv4(m, n, ulStatus.Mac), "releaseIPv4")
        m2 == [Op(m1, "removehostDnsmasq") EXCEPT
                  !.host.dnsmasqHost = @ \ {<<ulStatus.Bridge, ulStatus.Mac>>}]
        m3 == deleteACLConfiglet(m2, ulStatus.Vif, "deleteACL", fault)
        m4 == [Op(m3, "removeFromHostsConfiglet") EXCEPT
                  !.host.hostsFile = @ \ {<<ulStatus.Bridge, m.status.DisplayName>>}]
    IN deleteBridge(m4, n, ulStatus, ipsets)

RECURSIVE deleteOverlays(_, _, _, _)
deleteOverlays(m, olNum, ipsets, fault) ==
    IF m.ret \/ olNum > m.status.OlNum THEN m
    ELSE deleteOverlays(deleteOverlay(m, olNum, ipsets, fault),
                        olNum + 1, ipsets, fault)

RECURSIVE deleteUnderlays(_, _, _, _)
deleteUnderlays(m, ulNum, ipsets, fault) ==
    IF m.ret \/ ulNum > m.status.UlNum THEN m
    ELSE deleteUnderlays(deleteUnderlay(m, ulNum, ipsets, fault),
                         ulNum + 1, ipsets, fault)

\* the rest of handleDelete for a regular instance
deleteRegular(m, fault) ==
    LET ipsets == compileOldAppInstanceIpsets(m, m.status)
        m1 == deleteOverlays(m, 1, ipsets, fault)
        m2 == deleteUnderlays(m1, 1, ipsets, fault)
    IN IF m2.ret THEN m2 ELSE finishDelete(m2)

\* a delete that clears the device identity for every instance
handleDeleteClearsDevice(m, fault) ==
    LET m1 == publishAppNetworkStatus(
                [m EXCEPT !.status.PendingDelete = TRUE, !.dev = NoDevice])
    IN IF m.status.IsZedmanager THEN deleteZedmanager(m1, fault)
       ELSE deleteRegular(m1, fault)

\* a delete that frees the number before anything else
handleDeleteFreesOnEntry(m, fault) ==
    LET m1 == publishAppNetworkStatus(
                [m EXCEPT !.status.PendingDelete = TRUE,
                          !.nums = appNumFree(@, m.status.UUID)])
    IN IF m.status.IsZedmanager THEN deleteZedmanager(m1, fault)
       ELSE deleteRegular(m1, fault)

handleDelete(m, fault) ==
    LET m1 == publishAppNetworkStatus([m EXCEPT !.status.PendingDelete = TRUE])
    IN IF m.status.IsZedmanager THEN deleteZedmanager(m1, fault)
       ELSE deleteRegular(m1, fault)

----------------------------------------------------------------------------
(* The event loop of Run: select takes one event, its handler runs to     *)
(* completion, and the loop comes back to select.                         *)

Snapshot == [app |-> pubApp, nums |-> nums, net |-> netStatus, host |-> host,
             dev |-> dev, sdp |-> sdp]

NoSnapshot == [app |-> EmptyFn, nums |-> EmptyFn, net |-> EmptyFn,
               host |-> EmptyHost, dev |-> NoDevice, sdp |-> FALSE]

NoConfig(key) == [UUID |-> key]

Idle == [op |-> "idle", key |-> "", config |-> NoConfig(""), fault |-> "none"]

\* the working state of a handler that starts with local status `status`
Working(status) ==
    [app |-> pubApp, status |-> status, nums |-> nums, net |-> netStatus,
     host |-> host, log |-> <<>>, dev |-> dev, sdp |-> sdp,
     fatal |-> FALSE, ret |-> FALSE]

Commit(m, event) ==
    /\ pubApp' = m.app
    /\ nums' = m.nums
    /\ netStatus' = m.net
    /\ host' = m.host
    /\ dev' = m.dev
    /\ sdp' = m.sdp
    /\ fatal' = m.fatal
    /\ log' = m.log
    /\ pre' = Snapshot
    /\ last' = event
    /\ events' = events + 1
    /\ UNCHANGED <<netConfig, svc, limit, probe, statsVars, run>>

\* lookupAppNetworkStatus
lookupAppNetworkStatus(key) == key \in Dom(pubApp)

\* Error grows without bound: the model stops sending config events for a
\* status that holds MaxErrors errors; it can still be deleted
Sendable(key) ==
    IF lookupAppNetworkStatus(key) THEN Len(pubApp[key].Error) < MaxErrors ELSE TRUE

Boot ==
    /\ pubApp = EmptyFn
    /\ nums = EmptyFn
    /\ netConfig = {}
    /\ netStatus = EmptyFn
    /\ svc = [n \in Nets |-> "none"]
    /\ sdp = FALSE
    /\ dev = NoDevice
    /\ host = EmptyHost
    /\ fatal = FALSE
    /\ log = <<>>
    /\ pre = NoSnapshot
    /\ last = Idle
    /\ events = 0

NoProbe == [required |-> {}, existing |-> {}, called |-> FALSE,
            out |-> [merged |-> {}, stale |-> {}, restart |-> FALSE]]

\* oci.go at rest: no channel, no call made
NoChan == [nil |-> TRUE, cap |-> 0, buf |-> <<>>]

NoReceiver == [state |-> "away", got |-> <<>>]

NoProducer == [calls |-> 0, outcome |-> "none", full |-> FALSE]

\* Pull not called
NoPull == [pc |-> "off"]

StatsIdle ==
    prgChan = NoChan /\ receiver = NoReceiver /\ producer = NoProducer /\ pull = NoPull

\* Run not followed: the reconciler's handlers are taken one by one
NoRun == [pc |-> "off"]


Init == Boot /\ limit = MaxEvents /\ probe = NoProbe /\ StatsIdle /\ run = NoRun

\* a dispatcher that does not compare the config's key with the event key
handleAppNetworkConfigModifyNoKeyCheck(key, config, fault) ==
    /\ ~fatal
    /\ last.op = "idle"
    /\ events < limit
    /\ Sendable(key)
    /\ IF ~lookupAppNetworkStatus(key)
       THEN Commit(handleCreate(Working(NoPending), config, fault),
                   [op |-> "create", key |-> key, config |-> config, fault |-> fault])
       ELSE Commit(handleModify(Working(pubApp[key]), config, fault),
                   [op |-> "modify", key |-> key, config |-> config, fault |-> fault])

handleAppNetworkConfigModify(key, config, fault) ==
    /\ ~fatal
    /\ last.op = "idle"
    /\ events < limit
    /\ Sendable(key)
    /\ IF config.UUID # key
       THEN Commit(Working(NoPending),
                   [op |-> "ignored", key |-> key, config |-> config, fault |-> fault])
       ELSE IF ~lookupAppNetworkStatus(key)
       THEN Commit(handleCreate(Working(NoPending), config, fault),
                   [op |-> "create", key |-> key, config |-> config, fault |-> fault])
       ELSE Commit(handleModify(Working(pubApp[key]), config, fault),
                   [op |-> "modify", key |-> key, config |-> config, fault |-> fault])

\* a delete that frees the number of a key it finds no status for
handleAppNetworkConfigDeleteFreesUnknown(key, fault) ==
    /\ ~fatal
    /\ last.op = "idle"
    /\ events < limit
    /\ IF ~lookupAppNetworkStatus(key)
       THEN Commit([Working(NoPending) EXCEPT !.nums = appNumFree(@, key)],
                   [op |-> "unknown", key |-> key, config |-> NoConfig(key), fault |-> fault])
       ELSE Commit(handleDelete(Working(pubApp[key]), fault),
                   [op |-> "delete", key |-> key, config |-> NoConfig(key), fault |-> fault])

handleAppNetworkConfigDelete(key, fault) ==
    /\ ~fatal
    /\ last.op = "idle"
    /\ events < limit
    /\ IF ~lookupAppNetworkStatus(key)
       THEN Commit(Working(NoPending),
                   [op |-> "unknown", key |-> key, config |-> NoConfig(key), fault |-> fault])
       ELSE Commit(handleDelete(Working(pubApp[key]), fault),
                   [op |-> "delete", key |-> key, config |-> NoConfig(key), fault |-> fault])

\* the handler has returned: the loop is back at select
Select ==
    /\ last.op # "idle"
    /\ events < limit
    /\ last' = Idle
    /\ log' = <<>>
    /\ pre' = NoSnapshot
    /\ UNCHANGED <<pubApp, nums, netConfig, netStatus, svc, sdp, dev, host, fatal,
                   events, limit, probe, statsVars, run>>

\* the companion subscriptions: a network's config arrives, its status is
\* published, both go away; a service is attached, activated, removed
Companion ==
    /\ ~fatal
    /\ last.op = "idle"
    /\ UNCHANGED <<pubApp, nums, sdp, dev, host, fatal, log, pre, last, events,
                   limit, probe, statsVars, run>>

NetworkObjectConfigArrives(n) ==
    /\ Companion
    /\ n \notin netConfig
    /\ netConfig' = netConfig \cup {n}
    /\ UNCHANGED <<netStatus, svc>>

NetworkObjectStatusAppears(n) ==
    /\ Companion
    /\ n \in netConfig
    /\ n \notin Dom(netStatus)
    /\ netStatus' = With(netStatus, n, NewNetworkObjectStatus(n))
    /\ UNCHANGED <<netConfig, svc>>

NetworkObjectGone(n) ==
    /\ Companion
    /\ n \in netConfig
    /\ netConfig' = netConfig \ {n}
    /\ netStatus' = Without(netStatus, n)
    /\ svc' = [svc EXCEPT ![n] = "none"]

NetworkServiceChange(n, s) ==
    /\ Companion
    /\ n \in Dom(netStatus)
    /\ svc[n] # s
    /\ svc' = [svc EXCEPT ![n] = s]
    /\ UNCHANGED <<netConfig, netStatus>>

Next ==
    \/ \E key \in Keys, config \in Configs, fault \in Faults :
          handleAppNetworkConfigModify(key, config, fault)
    \/ \E key \in Keys, fault \in Faults : handleAppNetworkConfigDelete(key, fault)
    \/ Select
    \/ \E n \in Nets : NetworkObjectConfigArrives(n)
    \/ \E n \in Nets : NetworkObjectStatusAppears(n)
    \/ \E n \in Nets : NetworkObjectGone(n)
    \/ \E n \in OverlayNets, s \in {"none", "inactive", "active"} :
          NetworkServiceChange(n, s)

Spec == Init /\ [][Next]_vars

\* runs with two instances, of MaxEvents2 config events, no host fault
\* configs of another instance delivered under the key: a management config
\* with one overlay, a regular config with one overlay and one underlay
StrayConfigs(key) ==
    { c \in UNION {ConfigsOf2(k) : k \in Keys2 \ {key}} :
        /\ Len(c.OverlayNetworkList) = 1
        /\ Len(c.UnderlayNetworkList) = (IF c.IsZedmanager THEN 0 ELSE 1) }

Init2 == Boot /\ limit = MaxEvents2 /\ probe = NoProbe /\ StatsIdle /\ run = NoRun

Next2 ==
    \/ \E key \in Keys2 : \E config \in ConfigsOf2(key) \cup StrayConfigs(key) :
          handleAppNetworkConfigModify(key, config, "none")
    \/ \E key \in Keys2 : handleAppNetworkConfigDelete(key, "none")
    \/ Select
    \/ \E n \in Nets : NetworkObjectConfigArrives(n)
    \/ \E n \in Nets : NetworkObjectStatusAppears(n)
    \/ \E n \in Nets : NetworkObjectGone(n)
    \/ \E n \in OverlayNets, s \in {"none", "inactive", "active"} :
          NetworkServiceChange(n, s)

Spec2 == Init2 /\ [][Next2]_vars

\* diffIpsets alone: one call on each pair of sets of ipset names
IpsetNames == {"ipset." \o ToString(i) : i \in 1..MaxNames}

InitDiff ==
    /\ Boot
    /\ limit = 0
    /\ \E required \in SUBSET IpsetNames, existing \in SUBSET IpsetNames :
          probe = [NoProbe EXCEPT !.required = required, !.existing = existing]
    /\ StatsIdle
    /\ run = NoRun

callDiffIpsets ==
    /\ ~probe.called
    /\ probe' = [probe EXCEPT !.called = TRUE,
                              !.out = diffIpsets(probe.required, probe.existing)]
    /\ UNCHANGED <<pubApp, nums, netConfig, netStatus, svc, sdp, dev, host, fatal,
                   log, pre, last, events, limit, statsVars, run>>

NextDiff == callDiffIpsets

SpecDiff == InitDiff /\ [][NextDiff]_vars

\* the MAC formatting alone: one call for each kind (0 underlay, 1 overlay,
\* 2 management), interface index and number
InitMac ==
    /\ Boot
    /\ limit = 0
    /\ \E kind \in 0..2, idx \in 1..MaxIfIdx, appNum \in 0..MaxMacNum :
          probe = [kind |-> kind, idx |-> idx, appNum |-> appNum,
                   called |-> FALSE, out |-> <<>>]
    /\ StatsIdle
    /\ run = NoRun

callGenMac ==
    /\ ~probe.called
    /\ probe' = [probe EXCEPT !.called = TRUE,
                              !.out = GenMac(probe.kind, probe.idx, probe.appNum)]
    /\ UNCHANGED <<pubApp, nums, netConfig, netStatus, svc, sdp, dev, host, fatal,
                   log, pre, last, events, limit, statsVars, run>>

NextMac == callGenMac

SpecMac == InitMac /\ [][NextMac]_vars

----------------------------------------------------------------------------
(* oci.go: sendStats, its caller and the consumer of the NotifChan.  A send *)
(* in a select with a default proceeds when a receiver is blocked in a     *)
(* receive or the buffer has room, and the default is taken otherwise.     *)

InitStats ==
    /\ Boot
    /\ limit = 0
    /\ probe = NoProbe
    /\ prgChan \in {NoChan} \cup {[nil |-> FALSE, cap |-> c, buf |-> <<>>] : c \in 0..MaxCap}
    /\ receiver = NoReceiver
    /\ producer = NoProducer
    /\ pull = NoPull
    /\ run = NoRun

AppUnchanged ==
    UNCHANGED <<pubApp, nums, netConfig, netStatus, svc, sdp, dev, host, fatal,
                log, pre, last, events, limit, probe, run, pull>>

\* the send case of the select can proceed
CanSend == receiver.state = "waiting" \/ Len(prgChan.buf) < prgChan.cap

\* a send outside a select: the caller waits until the send can proceed
sendStatsBlocking ==
    /\ producer.calls < MaxCalls
    /\ prgChan.nil \/ CanSend
    /\ producer' = [calls |-> producer.calls + 1,
                    outcome |-> IF prgChan.nil THEN "nil" ELSE "delivered",
                    full |-> FALSE]
    /\ IF prgChan.nil THEN UNCHANGED <<prgChan, receiver>>
       ELSE IF receiver.state = "waiting"
       THEN /\ receiver' = [state |-> "away",
                            got |-> Append(receiver.got, producer.calls + 1)]
            /\ UNCHANGED prgChan
       ELSE /\ prgChan' = [prgChan EXCEPT !.buf = Append(@, producer.calls + 1)]
            /\ UNCHANGED receiver
    /\ AppUnchanged

\* sendStats(prgChan, stats): stats is the number of the call
sendStats ==
    /\ producer.calls < MaxCalls
    /\ producer' = [calls |-> producer.calls + 1,
                    outcome |-> IF prgChan.nil THEN "nil"
                                ELSE IF CanSend THEN "delivered" ELSE "dropped",
                    full |-> ~prgChan.nil /\ ~CanSend]
    /\ IF prgChan.nil THEN UNCHANGED <<prgChan, receiver>>
       ELSE IF receiver.state = "waiting"
       THEN /\ receiver' = [state |-> "away",
                            got |-> Append(receiver.got, producer.calls + 1)]
            /\ UNCHANGED prgChan
       ELSE IF Len(prgChan.buf) < prgChan.cap
       THEN /\ prgChan' = [prgChan EXCEPT !.buf = Append(@, producer.calls + 1)]
            /\ UNCHANGED receiver
       ELSE UNCHANGED <<prgChan, receiver>>
    /\ AppUnchanged

\* the consumer blocks in a receive on the empty channel
receiverWaits ==
    /\ ~prgChan.nil
    /\ receiver.state = "away"
    /\ prgChan.buf = <<>>
    /\ receiver' = [receiver EXCEPT !.state = "waiting"]
    /\ UNCHANGED <<prgChan, producer>>
    /\ AppUnchanged

\* the consumer receives the oldest buffered update
receiverTakes ==
    /\ ~prgChan.nil
    /\ receiver.state = "away"
    /\ prgChan.buf # <<>>
    /\ receiver' = [receiver EXCEPT !.got = Append(@, Head(prgChan.buf))]
    /\ prgChan' = [prgChan EXCEPT !.buf = Tail(@)]
    /\ UNCHANGED producer
    /\ AppUnchanged

\* the consumer stops reading the channel for good
receiverLeaves ==
    /\ receiver.state \in {"away", "waiting"}
    /\ receiver' = [receiver EXCEPT !.state = "gone"]
    /\ UNCHANGED <<prgChan, producer>>
    /\ AppUnchanged

NextStats ==
    \/ sendStats
    \/ receiverWaits
    \/ receiverTakes
    \/ receiverLeaves

\* the caller of sendStats runs whatever the consumer does; nothing is
\* assumed about the consumer
SpecStats == InitStats /\ [][NextStats]_vars /\ WF_vars(sendStats)

----------------------------------------------------------------------------
(* Pull (oci.go:230-256): the channel c, the goroutine that runs           *)
(* tarball.Write with c as its progress channel, and the range loop.  The  *)
(* writer is the library's: it sends progress updates, may send an update  *)
(* that carries io.EOF or another error, and may return at any point; what *)
(* it does after an update with an error is open.  sendStats is called     *)
(* with a nil NotifChan here and returns at once.                          *)

\* c := make(chan v1.Update, ...); defer close(c); go func() {...}()
InitPull ==
    /\ Boot
    /\ limit = 0
    /\ probe = NoProbe
    /\ prgChan = NoChan /\ receiver = NoReceiver /\ producer = NoProducer
    /\ run = NoRun
    /\ pull =
          [pc |-> "range",            \* range, returned
           result |-> "none",         \* none, nil, error
           c |-> [closed |-> FALSE, buf |-> <<>>],
           writer |-> "writing",      \* writing, failed, done
           sent |-> 0,
           got |-> "none",            \* the last update the loop received
           panic |-> FALSE]           \* send on the closed channel

PullUnchanged ==
    UNCHANGED <<pubApp, nums, netConfig, netStatus, svc, sdp, dev, host, fatal,
                log, pre, last, events, limit, probe, run,
                prgChan, receiver, producer>>

\* a send of update by the writer that is in state from: it panics on the
\* closed channel and needs room in the buffer otherwise
WriterSends(from, update, to) ==
    /\ pull.writer = from
    /\ ~pull.panic
    /\ IF pull.c.closed
       THEN pull' = [pull EXCEPT !.panic = TRUE, !.writer = "done"]
       ELSE /\ Len(pull.c.buf) < MaxBuf
            /\ pull' = [pull EXCEPT !.c.buf = Append(@, update),
                                    !.writer = to,
                                    !.sent = IF update = "progress" THEN @ + 1 ELSE @]
    /\ PullUnchanged

\* the writer reports progress
writerProgress ==
    /\ pull.sent < MaxUpdates
    /\ WriterSends("writing", "progress", "writing")

\* the writer is through: the update with io.EOF is its last
writerEOF ==
    /\ pull.pc \in {"range", "returned"}
    /\ WriterSends("writing", "eof", "done")

\* the writer fails and sends the update with the error
writerError ==
    /\ pull.pc \in {"range", "returned"}
    /\ WriterSends("writing", "error", "failed")

\* the writer that has failed flushes what it holds on its way out, which
\* reports progress once more
writerFlush ==
    /\ pull.pc \in {"range", "returned"}
    /\ WriterSends("failed", "progress", "done")

\* the writer returns without a further update
writerReturns ==
    /\ pull.writer \in {"writing", "failed"}
    /\ ~pull.panic
    /\ pull' = [pull EXCEPT !.writer = "done"]
    /\ PullUnchanged

\* one pass of for update := range c: the receive, sendStats, the two tests;
\* a return runs the deferred close(c)
pullReceive ==
    /\ pull.pc = "range"
    /\ ~pull.panic
    /\ pull.c.buf # <<>>
    /\ LET update == Head(pull.c.buf)
           p1 == [pull EXCEPT !.c.buf = Tail(@), !.got = update]
       IN  pull' = IF update = "eof"
                   THEN [p1 EXCEPT !.pc = "returned", !.result = "nil",
                                   !.c.closed = TRUE]
                   ELSE IF update = "error"
                   THEN [p1 EXCEPT !.pc = "returned", !.result = "error",
                                   !.c.closed = TRUE]
                   ELSE p1
    /\ PullUnchanged

NextPull ==
    \/ writerProgress
    \/ writerEOF
    \/ writerError
    \/ writerFlush
    \/ writerReturns
    \/ pullReceive

\* both goroutines are scheduled as long as they can take a step
SpecPull ==
    /\ InitPull
    /\ [][NextPull]_vars
    /\ WF_vars(writerProgress \/ writerEOF \/ writerError \/ writerFlush
                  \/ writerReturns)
    /\ WF_vars(pullReceive)

----------------------------------------------------------------------------
(* Run (part_000:214-414): the uplink wait loop, the start of the          *)
(* subscriptions, the wait for zedmanager's restarted and the main loop;   *)
(* maybeHandleDUC (417-428) and handleRestart (430-443).  Each pass of a   *)
(* select is one action.  What the handlers of the app, network and PBR    *)
(* events do is left out here: run.seen keeps which sources were served.   *)

\* the four subscriptions of the device network and uplink configs
UplinkSources == {"subDeviceNetworkConfig", "subDeviceUplinkConfigA",
                  "subDeviceUplinkConfigO", "subDeviceUplinkConfigS"}

\* what the main loop serves besides them and the zedmanager subscription
MainOnlySources == {"subAppNetworkConfigAg", "addrChanges", "linkChanges",
                    "routeChanges", "publishTimer", "geoTimer",
                    "subNetworkObjectConfig", "subNetworkServiceConfig",
                    "subAa"}

\* the sources that exist only once the uplink wait loop is left
LateSources == {"subAppNetworkConfig", "subAppNetworkConfigAg",
                "subNetworkObjectConfig", "subNetworkServiceConfig"}

\* a change on an uplink subscription as its handler sees it: whether the
\* config differs from the current one, and the addresses usable with it
UplinkChanges == [changed : BOOLEAN, count : 0..MaxAddrs]

\* a change on the zedmanager subscription
AppChanges == {[kind |-> "modify", done |-> FALSE],
               [kind |-> "delete", done |-> FALSE],
               [kind |-> "restart", done |-> FALSE],
               [kind |-> "restart", done |-> TRUE]}

\* the history of one pass as it starts
RunEvent(r, op, src) ==
    [op |-> op, src |-> src, pc |-> r.pc, done |-> FALSE,
     wasChanged |-> FALSE, wasReady |-> FALSE, refreshed |-> FALSE,
     lisp |-> FALSE, signal |-> FALSE]

\* one more event taken from source src
Served(r, op, src) ==
    [r EXCEPT !.steps = @ + 1,
              !.seen = @ \cup {src},
              !.waited = IF r.pc = "restartWait" THEN @ \cup {src} ELSE @,
              !.last = RunEvent(r, op, src)]

\* updateLispConfiglets and setFreeUplinks on the current DeviceUplinkConfig
refreshUplinks(r) == [r EXCEPT !.applied = r.config, !.last.refreshed = TRUE]

\* maybeHandleDUC without the assignment that clears Changed
maybeHandleDUCKeepsChanged(r) ==
    LET r0 == [r EXCEPT !.last.wasChanged = r.Changed, !.last.wasReady = r.ready]
    IN  IF ~r0.Changed THEN r0
        ELSE IF ~r0.ready THEN [r0 EXCEPT !.consumedEarly = TRUE]
        ELSE refreshUplinks(r0)

maybeHandleDUC(r) ==
    LET r0 == [r EXCEPT !.last.wasChanged = r.Changed, !.last.wasReady = r.ready]
    IN  IF ~r0.Changed THEN r0
        ELSE LET r1 == [r0 EXCEPT !.Changed = FALSE]
             IN  IF ~r1.ready THEN [r1 EXCEPT !.consumedEarly = TRUE]
                 ELSE refreshUplinks(r1)

\* ProcessChange of an uplink subscription: HandleDNCModify, HandleDUCModify
\* and their delete handlers take the new config and mark the context
UplinkProcessChange(r, change) ==
    IF change.changed
    THEN [r EXCEPT !.config = @ + 1, !.Changed = TRUE,
                   !.UsableAddressCount = change.count]
    ELSE r

\* handleRestart that signals restarted whatever done is
handleRestartAlwaysSignals(r, done) ==
    [r EXCEPT !.last.done = done,
              !.last.wasReady = r.ready,
              !.last.lisp = r.ready,
              !.last.signal = TRUE,
              !.signalled = TRUE]

handleRestart(r, done) ==
    [r EXCEPT !.last.done = done,
              !.last.wasReady = r.ready,
              !.last.lisp = r.ready,
              !.last.signal = done,
              !.signalled = @ \/ done]

\* ProcessChange of the zedmanager subscription: the modify and delete
\* handlers, or the restart handler after the subscription took the flag
AppProcessChange(r, change) ==
    IF change.kind = "restart"
    THEN handleRestart([r EXCEPT !.restarted = change.done,
                                 !.everRestarted = @ \/ change.done,
                                 !.last.op = "restart"],
                       change.done)
    ELSE r

\* the state when the uplink wait loop is first reached
RunStart(count) ==
    [pc |-> "uplinkWait",
     UsableAddressCount |-> count,
     done |-> count # 0,
     t1 |-> "armed",
     Changed |-> FALSE,
     ready |-> FALSE,
     config |-> 0,
     applied |-> -1,
     restarted |-> FALSE,
     signalled |-> FALSE,
     everRestarted |-> FALSE,
     consumedEarly |-> FALSE,
     startCount |-> count,
     exit |-> [left |-> FALSE, count |-> 0, done |-> FALSE, seen |-> {}],
     seen |-> {},
     waited |-> {},
     steps |-> 0,
     last |-> RunEvent([pc |-> "none"], "none", "none")]

InitRun ==
    /\ Boot
    /\ limit = 0
    /\ probe = NoProbe
    /\ StatsIdle
    /\ \E count \in 0..MaxAddrs : run = RunStart(count)

RunUnchanged ==
    UNCHANGED <<pubApp, nums, netConfig, netStatus, svc, sdp, dev, host, fatal,
                log, pre, last, events, limit, probe, statsVars>>

\* a change can be taken: the event bound and the version bound allow it
Takeable(change) ==
    /\ run.steps < MaxRunSteps
    /\ change.changed => run.config < MaxVersions

\* one pass of the uplink wait loop: an uplink subscription
uplinkWaitChange(src, change) ==
    /\ run.pc = "uplinkWait"
    /\ run.UsableAddressCount = 0 \/ ~run.done
    /\ Takeable(change)
    /\ run' = maybeHandleDUC(UplinkProcessChange(Served(run, "uplink", src), change))
    /\ RunUnchanged

\* one pass of the uplink wait loop: the timer t1
uplinkWaitTimer ==
    /\ run.pc = "uplinkWait"
    /\ run.UsableAddressCount = 0 \/ ~run.done
    /\ run.steps < MaxRunSteps
    /\ run.t1 = "armed"
    /\ run' = [Served(run, "timer", "t1") EXCEPT !.t1 = "fired", !.done = TRUE]
    /\ RunUnchanged

\* what follows the uplink wait loop up to the wait for restarted:
\* handleInit, the subscriptions, PbrInit, the refresh of the tunnel
\* configlets and the free uplinks from the current config, ready
Started(r) ==
    [refreshUplinks([r EXCEPT !.last = RunEvent(r, "startup", "none"),
                              !.exit = [left |-> TRUE,
                                        count |-> r.UsableAddressCount,
                                        done |-> r.done,
                                        seen |-> r.seen]])
       EXCEPT !.ready = TRUE, !.pc = "restartWait"]

\* the loop left as soon as one of its two conditions fails
uplinkWaitLeftEarly ==
    /\ run.pc = "uplinkWait"
    /\ run.UsableAddressCount # 0 \/ run.done
    /\ run' = Started(run)
    /\ RunUnchanged

\* the uplink wait loop is left
uplinkWaitLeft ==
    /\ run.pc = "uplinkWait"
    /\ ~(run.UsableAddressCount = 0 \/ ~run.done)
    /\ run' = Started(run)
    /\ RunUnchanged

\* a wait for restarted that serves the zedagent app configs as well
restartWaitChangeAnySource(src, change) ==
    /\ run.pc = "restartWait"
    /\ ~run.restarted
    /\ run.steps < MaxRunSteps
    /\ \E any \in {src, "subAppNetworkConfigAg"} :
          run' = AppProcessChange(Served(run, "app", any), change)
    /\ RunUnchanged

\* one pass of the wait for restarted
restartWaitChange(src, change) ==
    /\ run.pc = "restartWait"
    /\ ~run.restarted
    /\ run.steps < MaxRunSteps
    /\ run' = AppProcessChange(Served(run, "app", src), change)
    /\ RunUnchanged

\* zedmanager has restarted: the main loop is entered
restartWaitLeft ==
    /\ run.pc = "restartWait"
    /\ run.restarted
    /\ run' = [run EXCEPT !.pc = "main", !.last = RunEvent(run, "enter", "none")]
    /\ RunUnchanged

\* the main loop: the zedmanager subscription
mainAppChange(change) ==
    /\ run.pc = "main"
    /\ run.steps < MaxRunSteps
    /\ run' = AppProcessChange(Served(run, "app", "subAppNetworkConfig"), change)
    /\ RunUnchanged

\* the main loop: an uplink subscription
mainUplinkChange(src, change) ==
    /\ run.pc = "main"
    /\ Takeable(change)
    /\ run' = maybeHandleDUC(UplinkProcessChange(Served(run, "uplink", src), change))
    /\ RunUnchanged

\* the main loop: the zedagent app configs, the PBR channels, the timers,
\* the network objects and services, the assignable adapters
mainOther(src) ==
    /\ run.pc = "main"
    /\ run.steps < MaxRunSteps
    /\ run' = Served(run, "other", src)
    /\ RunUnchanged

NextRun ==
    \/ \E src \in UplinkSources, change \in UplinkChanges : uplinkWaitChange(src, change)
    \/ uplinkWaitTimer
    \/ uplinkWaitLeft
    \/ \E change \in AppChanges : restartWaitChange("subAppNetworkConfig", change)
    \/ restartWaitLeft
    \/ \E change \in AppChanges : mainAppChange(change)
    \/ \E src \in UplinkSources, change \in UplinkChanges : mainUplinkChange(src, change)
    \/ \E src \in MainOnlySources : mainOther(src)

SpecRun == InitRun /\ [][NextRun]_vars

----------------------------------------------------------------------------
(* Properties.  They are stated on the state a handler leaves: last is the *)
(* event it handled, pre the tables before it, log what it published and   *)
(* did.                                                                    *)

\* the status of the handled key before and after the handler
Before == pre.app[last.key]
After == pubApp[last.key]
WasPublished == last.key \in Dom(pre.app)
IsPublished == last.key \in Dom(pubApp)

\* the handler issued no host, helper or tunnel operation and published no
\* network status: its log holds AppNetworkStatus publishes only
NoOperation == \A i \in 1..Len(log) : log[i].kind \in {"publish", "unpublish"}

\* nothing outside the AppNetworkStatus table was changed
NoResourceChange ==
    /\ host = pre.host
    /\ netStatus = pre.net
    /\ dev = pre.dev
    /\ sdp = pre.sdp

\* C9: a create for a management config with anything other than one overlay
\* and no underlay is aborted: the status stays published with an error and
\* PendingAdd false, no resource is created, the device identity and
\* ctx.separateDataPlane are unchanged.
C9_MalformedZedmanagerAborted ==
    (/\ last.op = "create"
     /\ last.config.IsZedmanager
     /\ \/ Len(last.config.OverlayNetworkList) # 1
        \/ Len(last.config.UnderlayNetworkList) # 0)
    => /\ IsPublished
       /\ After.Error # <<>>
       /\ ~After.PendingAdd
       /\ After.OverlayNetworkList = <<>>
       /\ After.UnderlayNetworkList = <<>>
       /\ NoOperation
       /\ NoResourceChange

\* a management create with one overlay and one underlay and the tunneling
\* mode flag set has been aborted
C9_Witness ==
    /\ last.op = "create"
    /\ last.config.IsZedmanager
    /\ last.config.SeparateDataPlane
    /\ Len(last.config.OverlayNetworkList) = 1
    /\ Len(last.config.UnderlayNetworkList) = 1
    /\ IsPublished
    /\ After.Error # <<>>

\* C2: a modify whose config has another number of overlays or underlays
\* than status.OlNum/UlNum is rejected: PendingModify false, Error not empty,
\* every interface record and every host resource as before, no operation.
C2_CountChangeRejected ==
    (/\ last.op = "modify"
     /\ \/ Len(last.config.OverlayNetworkList) # Before.OlNum
        \/ Len(last.config.UnderlayNetworkList) # Before.UlNum)
    => /\ IsPublished
       /\ ~After.PendingModify
       /\ After.Error # <<>>
       /\ After.OverlayNetworkList = Before.OverlayNetworkList
       /\ After.UnderlayNetworkList = Before.UnderlayNetworkList
       /\ After.OlNum = Before.OlNum
       /\ After.UlNum = Before.UlNum
       /\ NoOperation
       /\ NoResourceChange

\* an instance with one bound underlay was sent a config with no underlay
C2_Witness ==
    /\ last.op = "modify"
    /\ ~last.config.IsZedmanager
    /\ ~Before.IsZedmanager
    /\ Before.UlNum = 1
    /\ Len(Before.UnderlayNetworkList) = 1
    /\ Before.UnderlayNetworkList[1].Vif # ""
    /\ Before.UnderlayNetworkList[1].AssignedIPAddr # ""
    /\ Len(last.config.UnderlayNetworkList) = 0
    /\ Len(last.config.OverlayNetworkList) = Before.OlNum
    /\ After.Error # <<>>

\* C10: at every publish of an AppNetworkStatus, the intermediate publishes
\* of addError included, at most one of PendingAdd, PendingModify and
\* PendingDelete is true.
C10_AtMostOnePending ==
    /\ \A i \in 1..Len(log) :
          log[i].kind = "publish" => Cardinality(log[i].pend) <= 1
    /\ \A k \in Dom(pubApp) : Cardinality(PendingSet(pubApp[k])) <= 1

\* a modify recorded an error in an intermediate publish made while
\* PendingModify was the one flag set
C10_Witness ==
    /\ last.op = "modify"
    /\ Len(After.Error) > Len(Before.Error)
    /\ Len(log) >= 3
    /\ \E i \in 2..Len(log) :
          /\ log[i].kind = "publish"
          /\ log[i].pend = {"Modify"}
          /\ log[i - 1].kind = "op"

\* handleModify takes one of its three rejections on this event
ModifyRejected ==
    \/ last.config.IsZedmanager # Before.IsZedmanager
    \/ Len(last.config.OverlayNetworkList) # Before.OlNum
    \/ Len(last.config.UnderlayNetworkList) # Before.UlNum
    \/ last.config.IsZedmanager /\ last.config.SeparateDataPlane # pre.sdp

\* the vif list of every network is what it was before the handler
VifListsUnchanged ==
    \A n \in Dom(pre.net) :
        n \in Dom(netStatus) /\ netStatus[n].Vifs = pre.net[n].Vifs

\* C1: a successful (not rejected) handleModify keeps, for every overlay and
\* underlay record, Bridge, BridgeMac, BridgeIPAddr, Vif, Mac and
\* AssignedIPAddr / EID, and leaves every network's vif list unchanged.
C1_ModifyKeepsBindings ==
    (/\ last.op = "modify"
     /\ ~ModifyRejected
     /\ ~fatal
     /\ After.Error = Before.Error)
    => /\ Len(After.OverlayNetworkList) = Len(Before.OverlayNetworkList)
       /\ \A i \in 1..Len(Before.OverlayNetworkList) :
             LET a == After.OverlayNetworkList[i]
                 b == Before.OverlayNetworkList[i]
             IN /\ a.Bridge = b.Bridge
                /\ a.BridgeMac = b.BridgeMac
                /\ a.BridgeIPAddr = b.BridgeIPAddr
                /\ a.Vif = b.Vif
                /\ a.Mac = b.Mac
                /\ a.EID = b.EID
       /\ Len(After.UnderlayNetworkList) = Len(Before.UnderlayNetworkList)
       /\ \A i \in 1..Len(Before.UnderlayNetworkList) :
             LET a == After.UnderlayNetworkList[i]
                 b == Before.UnderlayNetworkList[i]
             IN /\ a.Bridge = b.Bridge
                /\ a.BridgeMac = b.BridgeMac
                /\ a.BridgeIPAddr = b.BridgeIPAddr
                /\ a.Vif = b.Vif
                /\ a.Mac = b.Mac
                /\ a.AssignedIPAddr = b.AssignedIPAddr
       /\ VifListsUnchanged

\* C3: in each of the three rejections of handleModify the published status
\* differs from the one before only in Error, with PendingModify false;
\* UUIDandVersion and SeparateDataPlane keep their values.
C3_RejectionLeavesStatus ==
    (last.op = "modify" /\ ModifyRejected)
    => /\ IsPublished
       /\ ~After.PendingModify
       /\ After.Version = Before.Version
       /\ After.SeparateDataPlane = Before.SeparateDataPlane
       /\ After = [Before EXCEPT !.Error = After.Error]

\* the config of the event is the one the status before it already reflects
ConfigReflected ==
    /\ last.config.Version = Before.Version
    /\ last.config.DisplayName = Before.DisplayName
    /\ last.config.IsZedmanager = Before.IsZedmanager
    /\ last.config.SeparateDataPlane = Before.SeparateDataPlane
    /\ Len(last.config.OverlayNetworkList) = Len(Before.OverlayNetworkList)
    /\ Len(last.config.OverlayNetworkList) = Before.OlNum
    /\ \A i \in 1..Len(Before.OverlayNetworkList) :
          LET c == last.config.OverlayNetworkList[i]
              b == Before.OverlayNetworkList[i]
          IN c.Network = b.Network /\ c.ACLs = b.ACLs /\ c.EID = b.EID
             /\ c.AppMacAddr = b.AppMacAddr
    /\ Len(last.config.UnderlayNetworkList) = Len(Before.UnderlayNetworkList)
    /\ Len(last.config.UnderlayNetworkList) = Before.UlNum
    /\ \A i \in 1..Len(Before.UnderlayNetworkList) :
          LET c == last.config.UnderlayNetworkList[i]
              b == Before.UnderlayNetworkList[i]
          IN c.Network = b.Network /\ c.ACLs = b.ACLs
             /\ c.AppMacAddr = b.AppMacAddr /\ c.AppIPAddr = b.AppIPAddr

\* C4: a modify event whose config is the one the status already reflects
\* issues no ACL, ipset, helper or vif list side effect and leaves the
\* published status equal to the one before the event.
C4_UnchangedModifyIsNoOp ==
    (last.op = "modify" /\ ConfigReflected)
    => /\ NoOperation
       /\ NoResourceChange
       /\ IsPublished
       /\ After = Before

\* C7: every delete event for a key with a published status ends with the
\* status unpublished and the numeric ID of the instance freed.
C7_DeleteEndsAbsent ==
    last.op = "delete" => ~IsPublished /\ last.key \notin Dom(nums)

\* C8: once handleDelete has unpublished a regular instance, every interface
\* it had has its ACL deleted, its lease released, its hosts and ipset
\* contributions removed, its vif off the bridge's vif list and its tunnel
\* configuration deleted, whatever the network and service tables hold.
C8_DeleteReleasesEverything ==
    (last.op = "delete" /\ ~Before.IsZedmanager /\ ~IsPublished)
    => /\ \A i \in 1..Len(Before.OverlayNetworkList) :
             LET ol == Before.OverlayNetworkList[i]
             IN /\ \A p \in host.acl : p[1] # ol.Vif
                /\ ol.Vif \notin host.ipset
                /\ <<ol.Bridge, Before.DisplayName>> \notin host.hostsFile
                /\ \A n \in Dom(netStatus) : ol.Vif \notin netStatus[n].Vifs
                /\ \A l \in host.lisp : l.EID # ol.EID
       /\ \A i \in 1..Len(Before.UnderlayNetworkList) :
             LET ul == Before.UnderlayNetworkList[i]
             IN /\ \A p \in host.acl : p[1] # ul.Vif
                /\ ul.Vif \notin host.ipset
                /\ <<ul.Bridge, Before.DisplayName>> \notin host.hostsFile
                /\ \A n \in Dom(netStatus) :
                      /\ ul.Vif \notin netStatus[n].Vifs
                      /\ ~HasLease(netStatus[n], ul.Mac)

\* the networks the overlays and underlays of the event's config refer to
Referenced ==
    {last.config.OverlayNetworkList[i].Network :
        i \in 1..Len(last.config.OverlayNetworkList)}
    \cup {last.config.UnderlayNetworkList[i].Network :
        i \in 1..Len(last.config.UnderlayNetworkList)}

\* the create was deferred: the first publish was withdrawn, no error was
\* recorded, nothing was created
Deferred ==
    /\ ~IsPublished
    /\ \A i \in 1..Len(log) : log[i].kind = "publish" => i = 1
    /\ NoOperation
    /\ NoResourceChange

DeferredEarlier == last.key \in Dom(pre.nums) /\ ~WasPublished

----------------------------------------------------------------------------
\* C11: whenever a handler has returned (the loop is between handlers),
\* every published AppNetworkStatus has PendingAdd, PendingModify and
\* PendingDelete all false, whichever return path the handler took.
C11_QuiescentBetweenHandlers ==
    ~fatal => \A k \in Dom(pubApp) : PendingSet(pubApp[k]) = {}

\* a management modify that changes the data plane flag has been rejected
\* after the PendingModify publish: the status it leaves is published
C11_Witness ==
    /\ last.op = "modify"
    /\ Before.IsZedmanager
    /\ last.config.SeparateDataPlane # pre.sdp
    /\ IsPublished
    /\ Len(After.Error) > Len(Before.Error)
    /\ \E i \in 1..Len(log) : log[i].kind = "publish" /\ "Modify" \in log[i].pend

----------------------------------------------------------------------------
\* C12: the number handleCreate allocates is never held by another
\* outstanding instance of the same namespace (management or regular): no
\* two published statuses of one namespace share an AppNum, and a number
\* freed by handleDelete may be allocated again.
C12_AppNumUniquePerNamespace ==
    /\ \A k1 \in Dom(pubApp), k2 \in Dom(pubApp) :
          (k1 # k2 /\ pubApp[k1].IsZedmanager = pubApp[k2].IsZedmanager)
              => pubApp[k1].AppNum # pubApp[k2].AppNum
    /\ (last.op = "delete" /\ ~IsPublished) => last.key \notin Dom(nums)

\* a create has published a status while another instance of the same
\* namespace holds a number: the two numbers differ
C12_Witness ==
    /\ last.op = "create"
    /\ IsPublished
    /\ \E k \in Dom(pre.app) :
          /\ k # last.key
          /\ pre.app[k].IsZedmanager = After.IsZedmanager
          /\ pre.app[k].AppNum # After.AppNum

----------------------------------------------------------------------------
\* C13: from the first publish of an instance's status until it is
\* unpublished, its AppNum, OlNum, UlNum and IsZedmanager never change,
\* whatever modify events arrive (accepted or rejected); its number stays
\* allocated to it, and a number is freed only by a delete that also
\* unpublishes the status.
C13_NumbersStable ==
    /\ (last.op # "idle" /\ WasPublished /\ IsPublished /\ ~fatal) =>
          /\ After.AppNum = Before.AppNum
          /\ After.OlNum = Before.OlNum
          /\ After.UlNum = Before.UlNum
          /\ After.IsZedmanager = Before.IsZedmanager
    /\ \A k \in Dom(pubApp) :
          ~fatal => k \in Dom(nums) /\ nums[k].num = pubApp[k].AppNum
    /\ (last.op # "idle" /\ Dom(pre.nums) \ Dom(nums) # {}) =>
          /\ last.op = "delete"
          /\ Dom(pre.nums) \ Dom(nums) = {last.key}
          /\ WasPublished
          /\ ~IsPublished

\* an accepted modify has rewritten the status of a published instance
C13_Witness ==
    /\ last.op = "modify"
    /\ IsPublished
    /\ After.Version # Before.Version
    /\ Len(After.Error) = Len(Before.Error)
    /\ After.AppNum = Before.AppNum
    /\ last.key \in Dom(nums)

----------------------------------------------------------------------------
\* the positions in the history of the entries of one kind
LogIndexes(kind) == {i \in 1..Len(log) : log[i].kind = kind}

\* a delete that ran to its end: the status is gone
CompletedDelete == last.op = "delete" /\ WasPublished /\ ~IsPublished /\ ~fatal

----------------------------------------------------------------------------
\* C15: a delete event for a key with no published AppNetworkStatus is a
\* no-op: no status is published or unpublished, no number is freed, no
\* error is recorded, and no host networking, ACL, ipset, helper or tunnel
\* operation is issued.
C15_DeleteOfAbsentKeyIsNoOp ==
    (last.op \in {"unknown", "delete"} /\ ~WasPublished) =>
        /\ last.op = "unknown"
        /\ log = <<>>
        /\ pubApp = pre.app
        /\ nums = pre.nums
        /\ NoResourceChange
        /\ ~fatal

\* a delete has been handled for a key whose create was deferred: the key
\* holds a number and has no status, and instances and networks exist
C15_Witness ==
    /\ last.op = "unknown"
    /\ ~WasPublished
    /\ last.key \in Dom(pre.nums)
    /\ pre.net # EmptyFn

----------------------------------------------------------------------------
\* the interface on network n can be created: the network has a status and
\* its bridge is found on the host
Creatable(n) ==
    n \in Dom(pre.net) /\ ~findBridgeFails(last.fault, pre.net[n].BridgeName)

\* C16: during handleCreate for a regular instance, a failure on one
\* interface (missing network status, bridge lookup failure, ACL failure) is
\* recorded in status.Error and the remaining overlays and underlays are
\* still processed: the final status is published with PendingAdd false and
\* with the bindings of every interface that did not fail.
C16_CreateContinuesAfterFailure ==
    (/\ last.op = "create"
     /\ ~last.config.IsZedmanager
     /\ \A n \in Referenced : n \in netConfig
     /\ ~fatal)
    => /\ IsPublished
       /\ ~After.PendingAdd
       /\ (\E n \in Referenced : ~Creatable(n)) => After.Error # <<>>
       /\ (last.fault = "acl" /\ \E n \in Referenced : Creatable(n))
             => After.Error # <<>>
       /\ \A i \in 1..Len(last.config.OverlayNetworkList) :
             LET n == last.config.OverlayNetworkList[i].Network
             IN Creatable(n) =>
                   /\ After.OverlayNetworkList[i].Bridge = pre.net[n].BridgeName
                   /\ After.OverlayNetworkList[i].Vif \in netStatus[n].Vifs
       /\ \A i \in 1..Len(last.config.UnderlayNetworkList) :
             LET n == last.config.UnderlayNetworkList[i].Network
             IN Creatable(n) =>
                   /\ After.UnderlayNetworkList[i].Bridge = pre.net[n].BridgeName
                   /\ After.UnderlayNetworkList[i].Vif \in netStatus[n].Vifs

----------------------------------------------------------------------------
\* C18: diffIpsets(required, existing) returns merged = required, stale =
\* existing minus required, and restartNeeded true iff merged differs from
\* existing as a set; in particular diff({}, {a,b}) = ({}, {a,b}, true),
\* diff({a}, {a}) = ({a}, {}, false), diff({a,b}, {a}) = ({a,b}, {}, true).
C18_DiffIpsets ==
    probe.called =>
        LET a == "ipset.1"
            b == "ipset.2"
            Is(required, existing) ==
                probe.required = required /\ probe.existing = existing
        IN /\ probe.out.merged = probe.required
           /\ \A x \in IpsetNames :
                 x \in probe.out.stale <=>
                    (x \in probe.existing /\ x \notin probe.required)
           /\ probe.out.stale \subseteq IpsetNames
           /\ probe.out.restart <=>
                 (\E x \in IpsetNames :
                     (x \in probe.out.merged) # (x \in probe.existing))
           /\ Is({}, {a, b}) =>
                 probe.out = [merged |-> {}, stale |-> {a, b}, restart |-> TRUE]
           /\ Is({a}, {a}) =>
                 probe.out = [merged |-> {a}, stale |-> {}, restart |-> FALSE]
           /\ Is({a, b}, {a}) =>
                 probe.out = [merged |-> {a, b}, stale |-> {}, restart |-> TRUE]

\* diffIpsets has been called with a set added and none removed
C18_Witness ==
    /\ probe.called
    /\ probe.required = {"ipset.1", "ipset.2"}
    /\ probe.existing = {"ipset.1"}
    /\ probe.out.restart

----------------------------------------------------------------------------
\* C17: no sequence of create, modify and delete events drives a handler
\* into a process-fatal exit; in particular the parse of each underlay's
\* stored MAC in handleDelete succeeds for every status that create and
\* modify can produce.
C17_NoFatalExit == ~fatal

----------------------------------------------------------------------------
\* C19: the device identity (deviceEID, deviceIID, additionalInfoDevice) is
\* non-empty only while a management instance's status is published; it is
\* set only by a management create that got past validation and cleared
\* only by a management delete; create, modify and delete of regular
\* instances and management modify never change it.
C19_DeviceIdentity ==
    /\ dev # NoDevice => \E k \in Dom(pubApp) : pubApp[k].IsZedmanager
    /\ (last.op # "idle" /\ dev # pre.dev) =>
          \/ /\ last.op = "create"
             /\ last.config.IsZedmanager
             /\ Len(last.config.OverlayNetworkList) = 1
             /\ Len(last.config.UnderlayNetworkList) = 0
             /\ dev.EID = last.config.OverlayNetworkList[1].EID
             /\ IsPublished
          \/ /\ last.op = "delete"
             /\ Before.IsZedmanager
             /\ dev = NoDevice

\* a regular instance has been deleted while the management instance is
\* published: the device identity is the one the management create set
C19_Witness ==
    /\ last.op = "delete"
    /\ ~Before.IsZedmanager
    /\ ~IsPublished
    /\ \E k \in Dom(pubApp) : pubApp[k].IsZedmanager
    /\ dev # NoDevice
    /\ dev = pre.dev

----------------------------------------------------------------------------
\* the tunnel metadata entries of the overlays of the regular instances
RegularLispEntries ==
    {l \in host.lisp :
        \E k \in Dom(pubApp) :
            /\ ~pubApp[k].IsZedmanager
            /\ \E i \in 1..Len(pubApp[k].OverlayNetworkList) :
                  pubApp[k].OverlayNetworkList[i].EID = l.EID}

\* C20: whenever the management instance's status is published, the tunnel
\* metadata generated for every regular instance's overlay carries the
\* management instance's identifier address and domain ID, in whatever order
\* the management config and the regular configs were processed.
C20_MetadataCarriesDeviceIdentity ==
    \A k \in Dom(pubApp) :
        (/\ pubApp[k].IsZedmanager
         /\ Len(pubApp[k].OverlayNetworkList) = 1
         /\ pubApp[k].Error = <<>>
         /\ PendingSet(pubApp[k]) = {})
        => \A l \in RegularLispEntries :
              l.info = pubApp[k].OverlayNetworkList[1].EID \o "/" \o ToString(dev.IID)

----------------------------------------------------------------------------
\* C21: at any time at most one published AppNetworkStatus has the
\* management flag (IsZedmanager) set, whatever create events arrive.
C21_AtMostOneZedmanager ==
    Cardinality({k \in Dom(pubApp) : pubApp[k].IsZedmanager}) <= 1

----------------------------------------------------------------------------
\* the tunnel configuration operations of the last handler
LispWrites ==
    {i \in LogIndexes("op") :
        log[i].name \in {"createLispEidConfiglet", "updateLispConfiglet"}}

\* C22: no tunnel configuration is written for an overlay of a regular
\* instance, by create or by modify, while the overlay's logical network has
\* no attached tunneling service or the service is not activated; the skip
\* records no error on the status and the rest of the interface setup is
\* still done.
C22_NoTunnelWithoutActiveService ==
    (/\ last.op \in {"create", "modify"}
     /\ ~last.config.IsZedmanager
     /\ IsPublished
     /\ ~After.IsZedmanager
     /\ \A i \in 1..Len(last.config.OverlayNetworkList) :
           ~ServiceActivated(last.config.OverlayNetworkList[i].Network))
    => /\ LispWrites = {}
       /\ host.lisp = pre.host.lisp
       /\ (/\ last.op = "create"
           /\ last.fault = "none"
           /\ \A n \in Referenced : n \in Dom(pre.net))
          => /\ After.Error = <<>>
             /\ \A i \in 1..Len(After.OverlayNetworkList) :
                   After.OverlayNetworkList[i].Vif # ""

----------------------------------------------------------------------------
\* C23: every virtual interface name handleCreate produces (management
\* dummy interface, overlay vif, underlay vif) is a function of exactly
\* (direction, interface index, the instance's numeric ID): the direction's
\* prefix, the index and the number, and nothing else.
C23_VifNameFromAppNum ==
    (last.op = "create" /\ IsPublished /\ ~fatal) =>
        /\ \A i \in 1..Len(After.OverlayNetworkList) :
              After.OverlayNetworkList[i].Vif # ""
                 => After.OverlayNetworkList[i].Vif = IfName("nbo", i, After.AppNum)
        /\ \A i \in 1..Len(After.UnderlayNetworkList) :
              After.UnderlayNetworkList[i].Vif # ""
                 => After.UnderlayNetworkList[i].Vif = IfName("nbu", i, After.AppNum)
        /\ (After.IsZedmanager /\ After.Error = <<>>)
              => host.links \ pre.host.links = {IfName("dbo", 1, After.AppNum)}

----------------------------------------------------------------------------
\* what sendStats has done with the updates so far
StatsOutcome ==
    /\ Len(prgChan.buf) <= prgChan.cap
    /\ producer.calls > 0 =>
          /\ prgChan.nil <=> producer.outcome = "nil"
          /\ producer.outcome = "dropped" <=> producer.full
    /\ prgChan.nil => prgChan.buf = <<>> /\ receiver.got = <<>>
    /\ \A i \in 1..Len(receiver.got) : receiver.got[i] \in 1..producer.calls
    /\ \A i \in 1..Len(prgChan.buf) : prgChan.buf[i] \in 1..producer.calls
    /\ producer.outcome = "delivered" =>
          \/ prgChan.buf # <<>> /\ prgChan.buf[Len(prgChan.buf)] = producer.calls
          \/ \E i \in 1..Len(receiver.got) : receiver.got[i] = producer.calls
    /\ producer.outcome = "dropped" =>
          /\ \A i \in 1..Len(prgChan.buf) : prgChan.buf[i] # producer.calls
          /\ \A i \in 1..Len(receiver.got) : receiver.got[i] # producer.calls

\* C24: sendStats never blocks its caller: with a nil channel it does
\* nothing, with a channel that has buffer space (or a ready receiver) it
\* delivers the update, and with a full channel it drops the update and
\* returns; the caller makes all its calls whatever the consumer does.
C24_SendStatsNeverBlocks ==
    /\ []StatsOutcome
    /\ <>(producer.calls = MaxCalls)

\* the consumer is gone, the buffer is full, and sendStats has dropped the
\* last update and returned
C24_Witness ==
    /\ receiver.state = "gone"
    /\ prgChan.cap > 0
    /\ Len(prgChan.buf) = prgChan.cap
    /\ producer.outcome = "dropped"
    /\ producer.calls = MaxCalls

----------------------------------------------------------------------------
\* the positions in the history of the publishes of the instance's status
Publishes == LogIndexes("publish")

LastPublish == CHOOSE p \in Publishes : \A q \in Publishes : q <= p

\* C25: in a create that is not deferred, the first publish of the status
\* has PendingAdd true and comes before any host networking, ACL, ipset,
\* helper or tunnel operation, and the last publish of the handler has
\* PendingAdd false; in a completed delete the publishes are PendingDelete
\* true, then PendingDelete false, then the unpublish, in that order.
C25_PublishOrder ==
    /\ (last.op = "create" /\ IsPublished /\ ~fatal) =>
          /\ Len(log) >= 2
          /\ log[1].kind = "publish"
          /\ log[1].pend = {"Add"}
          /\ log[LastPublish].pend = {}
          /\ LogIndexes("unpublish") = {}
    /\ CompletedDelete =>
          /\ log[1].kind = "publish"
          /\ log[1].pend = {"Delete"}
          /\ log[LastPublish].pend = {}
          /\ \A p \in Publishes \ {LastPublish} : log[p].pend = {"Delete"}
          /\ \A u \in LogIndexes("unpublish") : u > LastPublish
          /\ Cardinality(LogIndexes("unpublish")) = 1

\* a regular create with an overlay and an underlay has run its operations
\* between the PendingAdd publish and the last publish
C25_Witness ==
    /\ last.op = "create"
    /\ IsPublished
    /\ ~After.IsZedmanager
    /\ LogIndexes("op") # {}
    /\ \A o \in LogIndexes("op") : 1 < o /\ o < LastPublish
    /\ Len(After.OverlayNetworkList) = 1
    /\ Len(After.UnderlayNetworkList) = 1
    /\ After.UnderlayNetworkList[1].Vif # ""

----------------------------------------------------------------------------
\* the last event was a config modify event
ConfigEvent == last.op \in {"ignored", "create", "modify"}

\* C26: a config modify event is dispatched to handleCreate iff no
\* AppNetworkStatus is published under the event key, and to handleModify
\* otherwise; an event whose config key differs from the event key is
\* ignored and changes no state.  So a config delivered again after a
\* deferred create is handled as a create, and one delivered again after an
\* aborted create, whose status is published with its error, as a modify.
C26_Dispatch ==
    ConfigEvent =>
        /\ last.config.UUID # last.key =>
              /\ last.op = "ignored"
              /\ log = <<>>
              /\ pubApp = pre.app
              /\ nums = pre.nums
              /\ NoResourceChange
        /\ (last.config.UUID = last.key /\ ~WasPublished) =>
              /\ last.op = "create"
              /\ log # <<>>
              /\ log[1] = [kind |-> "publish", name |-> last.key, pend |-> {"Add"}]
        /\ (last.config.UUID = last.key /\ WasPublished) =>
              /\ last.op = "modify"
              /\ log # <<>>
              /\ \A p \in Publishes : "Add" \notin log[p].pend
              /\ LogIndexes("unpublish") = {}
              /\ ~fatal => IsPublished

\* the config of an instance whose create was aborted, its status published
\* with the error, has been delivered again and handled as a modify
C26_Witness ==
    /\ last.op = "modify"
    /\ last.config.UUID = last.key
    /\ Before.IsZedmanager
    /\ Before.OverlayNetworkList = <<>>
    /\ Before.Error # <<>>
    /\ IsPublished

----------------------------------------------------------------------------
(* Run *)

\* the sources the wait for restarted holds back
RestartGated == {"subAppNetworkConfigAg", "subNetworkObjectConfig",
                 "subNetworkServiceConfig", "addrChanges", "linkChanges",
                 "routeChanges", "publishTimer", "geoTimer"}

\* C27: Run enters the main loop only after the zedmanager app-config
\* subscription has reported restarted; the wait for it serves that
\* subscription only, and no event of the zedagent app configs, the network
\* objects and services, the link, address and route channels or the
\* periodic timers is served before the main loop, so none is ever served
\* while zedmanager has not reported restarted.
C27_RestartedBeforeMainLoop ==
    /\ run.pc = "main" => run.everRestarted
    /\ run.waited \subseteq {"subAppNetworkConfig"}
    /\ run.pc # "main" => run.seen \cap RestartGated = {}
    /\ ~run.everRestarted => run.seen \cap RestartGated = {}

\* the wait served zedmanager events, and the main loop then served the
\* zedagent app configs and a timer
C27_Witness ==
    /\ run.pc = "main"
    /\ "subAppNetworkConfig" \in run.waited
    /\ {"subAppNetworkConfigAg", "publishTimer"} \subseteq run.seen

\* C28: handleRestart signals restarted on the AppNetworkStatus publication
\* iff it is called with done true, inside the same invocation, and it calls
\* the LISP restart handling only when the context is ready.
C28_HandleRestart ==
    /\ run.last.op = "restart" =>
          /\ run.last.signal <=> run.last.done
          /\ run.last.signal => run.signalled
          /\ run.last.lisp => run.last.wasReady
    /\ run.signalled <=> run.everRestarted

\* handleRestart was called with done true, signalled and restarted LISP
C28_Witness ==
    /\ run.last.op = "restart"
    /\ run.last.done
    /\ run.last.signal
    /\ run.last.lisp
    /\ run.signalled

\* C29: after maybeHandleDUC returns Changed is false; it refreshes the
\* tunnel configlets and the free uplinks iff Changed was true and the
\* context was ready.  A change consumed while not ready is not lost: the
\* refresh Run makes right before it sets ready applies the current config,
\* so that whenever the context is ready the applied config is the current.
C29_MaybeHandleDUC ==
    /\ run.last.op = "uplink" =>
          /\ ~run.Changed
          /\ run.last.refreshed <=> (run.last.wasChanged /\ run.last.wasReady)
    /\ run.last.op = "startup" => run.last.refreshed /\ run.ready
    /\ run.ready => run.applied = run.config

\* an uplink change was consumed before ready, and the context is ready
\* with that config applied
C29_Witness ==
    /\ run.consumedEarly
    /\ run.last.op = "startup"
    /\ run.ready
    /\ run.config > 0
    /\ run.applied = run.config

\* C30: the uplink wait loop is left only with UsableAddressCount non-zero
\* and done true; done is true only if the timer t1 has fired or the count
\* was non-zero when the loop was reached; no network object, network
\* service or app-network config event is served before the loop is left.
C30_UplinkWait ==
    /\ run.exit.left <=> run.pc # "uplinkWait"
    /\ run.exit.left =>
          /\ run.exit.count # 0
          /\ run.exit.done
          /\ run.exit.seen \subseteq UplinkSources \cup {"t1"}
    /\ run.pc = "uplinkWait" => run.seen \cap LateSources = {}
    /\ run.done => (run.t1 = "fired" \/ run.startCount # 0)

\* the loop was reached without an address, the timer fired and an uplink
\* change brought an address: the loop is left
C30_Witness ==
    /\ run.exit.left
    /\ run.startCount = 0
    /\ run.t1 = "fired"
    /\ run.exit.seen \cap UplinkSources # {}
    /\ run.exit.count # 0

----------------------------------------------------------------------------
(* The DHCP/DNS helper *)

\* how often the last handler issued the host operation name
OpCount(name) ==
    Cardinality({i \in LogIndexes("op") : log[i].name = name})

\* the ipsets the last handler passed to diffIpsets as required
RequiredIpsets ==
    IF last.op = "delete"
    THEN compileOldAppInstanceIpsets([app |-> pre.app], Before)
    ELSE compileAppInstanceIpsets(last.config.OverlayNetworkList,
                                  last.config.UnderlayNetworkList)

\* the interfaces the loops of the last handler went through, in the order
\* ord (overlays first), each with its network and the bridge address the
\* handler tested: for a create the address it has just recorded in the
\* status, for a modify and a delete the one the status held before
LoopedInterfaces ==
    LET st == IF last.op = "create" THEN After ELSE Before
        reached(n) == n \in netConfig /\ n \in Dom(pre.net)
    IN {[kind |-> "o", ord |-> i, n |-> st.OverlayNetworkList[i].Network,
         addr |-> st.OverlayNetworkList[i].BridgeIPAddr] :
           i \in {j \in 1..Len(st.OverlayNetworkList) :
                    reached(st.OverlayNetworkList[j].Network)}}
       \cup
       {[kind |-> "u", ord |-> Len(st.OverlayNetworkList) + i,
         n |-> st.UnderlayNetworkList[i].Network,
         addr |-> st.UnderlayNetworkList[i].BridgeIPAddr] :
           i \in {j \in 1..Len(st.UnderlayNetworkList) :
                    reached(st.UnderlayNetworkList[j].Network)}}

\* the ipsets recorded for the interface's network when its iteration calls
\* diffIpsets: create and modify publish the required list with every
\* iteration, so a later interface on the same network finds it recorded;
\* delete publishes nothing and every iteration finds the list from before
RecordedIpsets(it) ==
    IF /\ last.op # "delete"
       /\ \E e \in LoopedInterfaces : e.n = it.n /\ e.ord < it.ord
    THEN RequiredIpsets
    ELSE pre.net[it.n].BridgeIPSets

\* the interfaces for which the helper had to be restarted
RestartsDue ==
    {it \in LoopedInterfaces :
        RequiredIpsets # RecordedIpsets(it) /\ it.addr # ""}

\* the last handler was a create, modify or delete of a regular instance
\* that went through its interface loops
LoopsRun ==
    /\ ~fatal
    /\ last.fault = "none"
    /\ \/ /\ last.op = "create"
          /\ ~last.config.IsZedmanager
          /\ IsPublished
          /\ Referenced \subseteq (netConfig \cap Dom(pre.net))
       \/ /\ last.op = "modify"
          /\ WasPublished
          /\ ~last.config.IsZedmanager
          /\ ~ModifyRejected
       \/ /\ last.op = "delete"
          /\ WasPublished
          /\ ~Before.IsZedmanager

\* C31: in create, modify and delete the helper of a bridge is stopped,
\* reconfigured and restarted for an interface iff diffIpsets reported a
\* difference between the required ipsets and the network's recorded ones
\* and the interface's bridge address is not empty; with required equal to
\* recorded the helper is left alone.
C31_HelperRestart ==
    LoopsRun =>
        /\ OpCount("stopDnsmasq") = Cardinality(RestartsDue)
        /\ OpCount("createDnsmasqConfiglet") = Cardinality(RestartsDue)
        /\ OpCount("startDnsmasq") = Cardinality(RestartsDue)
        /\ \A it \in RestartsDue :
              host.dnsmasqConf[pre.net[it.n].BridgeName] = RequiredIpsets
        /\ (\A it \in LoopedInterfaces : RequiredIpsets = RecordedIpsets(it))
             => host.dnsmasqConf = pre.host.dnsmasqConf

\* a modify restarted the helper of one bridge and left alone the helper of
\* the interface without a bridge address
C31_Witness ==
    /\ LoopsRun
    /\ last.op = "modify"
    /\ Cardinality(LoopedInterfaces) = 2
    /\ Cardinality(RestartsDue) = 1
    /\ OpCount("stopDnsmasq") = 1

\* C32: between handlers each network's published BridgeIPSets equals
\* the ipset list last written into the helper configuration of its bridge.
C32_PublishedIpsetsMatchHelper ==
    \A n \in Dom(netStatus) :
        netStatus[n].BridgeName \in Dom(host.dnsmasqConf) =>
            host.dnsmasqConf[netStatus[n].BridgeName] = netStatus[n].BridgeIPSets

\* the vif names the published statuses hold on network n
PublishedVifs(n) ==
    UNION {{pubApp[k].OverlayNetworkList[i].Vif :
              i \in {j \in 1..Len(pubApp[k].OverlayNetworkList) :
                       /\ pubApp[k].OverlayNetworkList[j].Network = n
                       /\ pubApp[k].OverlayNetworkList[j].Vif # ""}}
           \cup
           {pubApp[k].UnderlayNetworkList[i].Vif :
              i \in {j \in 1..Len(pubApp[k].UnderlayNetworkList) :
                       /\ pubApp[k].UnderlayNetworkList[j].Network = n
                       /\ pubApp[k].UnderlayNetworkList[j].Vif # ""}} :
           k \in Dom(pubApp)}

\* C33: between handlers a network's attached-vif list holds a vif name iff
\* some published AppNetworkStatus has an interface with that Vif on that
\* network: create adds it, delete removes it, modify leaves it in place.
C33_VifListMatchesStatuses ==
    /\ \A n \in Dom(netStatus) : netStatus[n].Vifs = PublishedVifs(n)
    /\ (last.op = "modify" /\ WasPublished) => VifListsUnchanged

\* the last handler was a modify that was applied without an error
ModifyApplied ==
    /\ last.op = "modify"
    /\ WasPublished
    /\ IsPublished
    /\ ~fatal
    /\ ~ModifyRejected
    /\ After.Error = Before.Error

\* C34: after a successful handleModify, for management and regular
\* instances alike, the ACL list in each interface's status is the ACL list
\* of the config just applied.
C34_StatusACLsFollowConfig ==
    ModifyApplied =>
        /\ Len(After.OverlayNetworkList) = Len(last.config.OverlayNetworkList)
        /\ Len(After.UnderlayNetworkList) = Len(last.config.UnderlayNetworkList)
        /\ \A i \in 1..Len(After.OverlayNetworkList) :
              After.OverlayNetworkList[i].ACLs = last.config.OverlayNetworkList[i].ACLs
        /\ \A i \in 1..Len(After.UnderlayNetworkList) :
              After.UnderlayNetworkList[i].ACLs = last.config.UnderlayNetworkList[i].ACLs

\* C35: between handlers every number that is allocated and not freed
\* belongs to an instance with a published AppNetworkStatus; a create that
\* is deferred, followed by a delete for the key, leaves no number allocated.
C35_NumbersBelongToPublished ==
    ~fatal => Dom(nums) \subseteq Dom(pubApp)

\* the interfaces of the published statuses that have a vif name
NamedInterfaces ==
    UNION {{[key |-> k, kind |-> "o", i |-> i,
             Vif |-> pubApp[k].OverlayNetworkList[i].Vif] :
              i \in {j \in 1..Len(pubApp[k].OverlayNetworkList) :
                       pubApp[k].OverlayNetworkList[j].Vif # ""}}
           \cup
           {[key |-> k, kind |-> "u", i |-> i,
             Vif |-> pubApp[k].UnderlayNetworkList[i].Vif] :
              i \in {j \in 1..Len(pubApp[k].UnderlayNetworkList) :
                       pubApp[k].UnderlayNetworkList[j].Vif # ""}} :
           k \in Dom(pubApp)}

\* C36: no two interfaces of published statuses have the same vif name,
\* whether of two instances or of one, with the names handleCreate builds.
C36_VifNamesUnique ==
    \A a, b \in NamedInterfaces : a.Vif = b.Vif => a = b

\* C37: the Error text of a status is append-only while the status is
\* published: a handler leaves it as it was or extends it with new entries,
\* every extension is published by the handler, and a later modify that
\* succeeds neither clears nor shortens it.
C37_ErrorAppendOnly ==
    (last.op # "idle" /\ WasPublished /\ IsPublished) =>
        /\ Len(Before.Error) <= Len(After.Error)
        /\ SubSeq(After.Error, 1, Len(Before.Error)) = Before.Error
        /\ Cardinality(Publishes) >= Len(After.Error) - Len(Before.Error)
        /\ After.Error # Before.Error => Publishes # {}

\* a modify of a status that already held an error added a second one
C37_Witness ==
    /\ last.op = "modify"
    /\ WasPublished
    /\ IsPublished
    /\ Before.Error # <<>>
    /\ Len(After.Error) = Len(Before.Error) + 1

----------------------------------------------------------------------------
(* The generated MAC addresses *)

\* the number a field of hex digits stands for
RECURSIVE HexValue(_)
HexValue(digits) ==
    IF digits = <<>> THEN 0
    ELSE 16 * HexValue(SubSeq(digits, 1, Len(digits) - 1)) + digits[Len(digits)]

\* C38: for an interface index in 1..255 and a number in 0..255 the MAC
\* handleCreate generates, 00:16:3e:<kind>:<idx>:<num> with two hex digits
\* per byte, is a well-formed 6-byte MAC, and kind, index and number can be
\* read back from it, so that distinct triples give distinct MACs; a number
\* above 255 gives a string that is no 6-byte MAC.
C38_GeneratedMac ==
    probe.called =>
        /\ Len(probe.out) = 6
        /\ SubSeq(probe.out, 1, 3) = << <<0, 0>>, <<1, 6>>, <<3, 14>> >>
        /\ probe.out[4] = <<0, probe.kind>>
        /\ \A f \in 5..6 : \A d \in 1..Len(probe.out[f]) : probe.out[f][d] \in 0..15
        /\ HexValue(probe.out[5]) = probe.idx
        /\ HexValue(probe.out[6]) = probe.appNum
        /\ ParseMACOk(probe.out) <=> (probe.idx <= 255 /\ probe.appNum <= 255)
        /\ probe.appNum > 255 => ~ParseMACOk(probe.out)

\* the largest index and number of the range gave a well-formed MAC
C38_Witness ==
    /\ probe.called
    /\ probe.idx = 255
    /\ probe.appNum = 255
    /\ ParseMACOk(probe.out)
    /\ probe.out[6] = <<15, 15>>

----------------------------------------------------------------------------
(* Pull *)

\* C39: Pull's progress loop ends whatever the writer does: it returns nil
\* after the update that carries io.EOF and an error after an update that
\* carries another error, and it does not wait forever when the writer
\* finishes without an update that carries an error.
C39_PullTerminates ==
    /\ [](pull.pc = "returned" =>
            /\ pull.got = "eof" <=> pull.result = "nil"
            /\ pull.got = "error" <=> pull.result = "error")
    /\ <>(pull.pc = "returned")

\* C40: the progress channel is never closed while the writer can still
\* send on it: when Pull's deferred close has run the writer has made its
\* last send.
C40_ClosedAfterLastSend ==
    pull.c.closed => (pull.writer = "done" /\ ~pull.panic)

====
